---- MODULE Spec2Model ----
(***************************************************************************)
(* Model of nanobot's cron core (src/nanobot/cron/service.py): the job     *)
(* store and its backing file, the heartbeat loop, the job executor and    *)
(* the mutation API of one CronService instance, plus an external writer   *)
(* of the backing file (a second process such as `nanobot cron add`).      *)
(*                                                                         *)
(* Granularity.  CronService runs on one asyncio event loop: a task runs   *)
(* without interruption from one await that suspends to the next.  Each    *)
(* action below is one such uninterrupted stretch of code.                 *)
(*                                                                         *)
(* Object identity.  _execute_job(job) holds a REFERENCE to a CronJob.     *)
(* _load_store builds new CronJob objects, so after a hot reload (or after *)
(* the object was filtered out of store.jobs) the object an execution      *)
(* holds is no longer the one in self._store.jobs.  An execution record    *)
(* carries `attached` (its object is the one in the collection) and, once  *)
(* detached, its own copy `job` of that object.                            *)
(*                                                                         *)
(* Time.  `now` is _now_ms() in abstract units; the loop's sleep floor     *)
(* (0.1 s) and ceiling (60 s) are scaled to SleepFloor and SleepCeiling.   *)
(* A file's st_mtime is the clock value at the write.                      *)
(***************************************************************************)
EXTENDS Integers, Sequences, FiniteSets, TLC

VARIABLES
    now,            \* _now_ms() / time.time()
    file,           \* the backing file: [mtime, jobs]; mtime = 0: no file
    store,          \* self._store.jobs (meaningful when loaded)
    loaded,         \* self._store is not None
    running,        \* self._running
    running_jobs,   \* self._running_jobs
    wakeup,         \* self._wakeup_event.is_set()
    loop_pc,        \* position of the _heartbeat_loop task
    last_mtime,     \* local last_mtime of _heartbeat_loop
    wake_at,        \* instant at which the loop's current wait/sleep times out
    execs,          \* the _execute_job invocations, in creation order
    calls,          \* history: per job id, the invocations of the callback by
                    \* executions the loop dispatched, since the job was added
                    \* or last enabled through the API (the count stops at 2)
    next_id,        \* number of job ids handed out so far (uuid4 stand-in)
    ops,            \* number of disturbances so far: remove/enable/run/stop
                    \* calls, external writes, passes of the loop that raise
    ext_ids,        \* history: ids written into the file by the external writer
    loop_errors,    \* history: a heartbeat cycle has raised
    mut,            \* self._lock and the mutation calls inside it (MutIdle
                    \* wherever a call runs from its lock to its save at once)
    calc,           \* a call of _compute_next_run on its own: its arguments
                    \* and, once it has returned, its result
    cb,             \* a call of the callback execute_cron_job on its own: the
                    \* job's payload, the agent's response, what was published
    detector,       \* a LoopDetector: max_repeats, history_size, tool_history,
                    \* content_history; history: the interactions added and
                    \* what the last add_interaction raised
    builder,        \* a ContextBuilder: last_l2_hash; history: the number of
                    \* build_messages calls, the last call's arguments and
                    \* system message, layer 2 of the caching call before it
    tasks,          \* every _heartbeat_loop task start() has created, each
                    \* with its position and its locals (empty wherever
                    \* start() is called once and loop_pc is that one task)
    timer_task,     \* self._timer_task: an index into tasks, 0 for None
    on_job,         \* self.on_job is not None: a callback is wired (TRUE
                    \* wherever the service is built with its callback)
    peer,           \* a second CronService instance on the same store file:
                    \* its _store, _running_jobs, executions, callback count
    codec           \* _save_store and _load_store on their own, on jobs with
                    \* every field: the collection, the document written, the
                    \* collection a fresh instance loads, the document it writes

(* the state outside the service with its one loop task *)
ext_vars == <<cb, detector, builder, tasks, timer_task, on_job, peer, codec>>

vars == <<now, file, store, loaded, running, running_jobs, wakeup, loop_pc,
          last_mtime, wake_at, execs, calls, next_id, ops, ext_ids, loop_errors,
          mut, calc, ext_vars>>

service_vars == <<now, file, store, loaded, running, running_jobs, wakeup, loop_pc,
                  last_mtime, wake_at, execs, calls, next_id, ops, ext_ids,
                  loop_errors, mut>>

----------------------------------------------------------------------------
(* Bounds of the model *)

MaxTime == 3
MaxJobs == 2
MaxExecs == 2
MaxOps == 1
MaxBatch == 2
MaxInteractions == 5
MaxBuilds == 4
MaxStarts == 3
SleepCeiling == 2

(* Python's None for the optional integer fields *)
None == -1

SleepFloor == 1

Min(a, b) == IF a <= b THEN a ELSE b
Max(a, b) == IF a >= b THEN a ELSE b

(* Truthy taking every value, None included, as true *)
TruthyAlways(x) == TRUE

(* Python truthiness of an `int | None` value: None and 0 are falsy *)
Truthy(x) == x # None /\ x # 0

----------------------------------------------------------------------------
(* Schedules and jobs *)

AtSchedule(t) ==
    [kind |-> "at", at_ms |-> t, every_ms |-> None, expr |-> "", tz |-> ""]
EverySchedule(d) ==
    [kind |-> "every", at_ms |-> None, every_ms |-> d, expr |-> "", tz |-> ""]

CronSchedule(expr, tz) ==
    [kind |-> "cron", at_ms |-> None, every_ms |-> None, expr |-> expr, tz |-> tz]

(* croniter stand-in: the expression "even" matches the even instants of   *)
(* the local frame; any other non-empty expression is invalid.             *)
TzOffset(tz) == IF tz = "east" THEN 1 ELSE 0
TzKnown(tz) == tz \in {"east", "utc"}
CronNext(expr, base) == ((base \div 2) + 1) * 2

(* the value of an expression that raised *)
Raised == -2

(* try: v  except Exception: handler *)
Try(v, handler) == IF v = Raised THEN handler ELSE v

(* croniter(expr, base).get_next(): raises on an invalid expression *)
Croniter(expr, base) == IF expr = "even" THEN CronNext(expr, base) ELSE Raised

(* ZoneInfo(tz), astimezone, croniter, and back to a UTC timestamp:        *)
(* ZoneInfo raises on a key it does not know                               *)
CroniterInTz(expr, base, tz) ==
    IF ~TzKnown(tz) THEN Raised
    ELSE LET local == Croniter(expr, base + TzOffset(tz))
         IN IF local = Raised THEN Raised ELSE local - TzOffset(tz)

(* NextRunAt dropping an instant that has passed *)
NextRunAtFutureOnly(schedule, now_ms) ==
    IF schedule.at_ms > now_ms THEN schedule.at_ms ELSE None

NextRunAt(schedule, now_ms) == schedule.at_ms

(* NextRunEvery without the check of the interval *)
NextRunEveryUnchecked(schedule, now_ms) == now_ms + schedule.every_ms

NextRunEvery(schedule, now_ms) ==
    IF ~Truthy(schedule.every_ms) \/ schedule.every_ms <= 0 THEN None
    ELSE now_ms + schedule.every_ms

(* NextRunCron without the fallback to UTC in the inner handler *)
NextRunCronNoFallback(schedule, now_ms) ==
    Try(IF schedule.tz # ""
        THEN CroniterInTz(schedule.expr, now_ms, schedule.tz)
        ELSE Croniter(schedule.expr, now_ms),
        None)

NextRunCron(schedule, now_ms) ==
    Try(IF schedule.tz # ""
        THEN Try(CroniterInTz(schedule.expr, now_ms, schedule.tz),
                 Croniter(schedule.expr, now_ms))
        ELSE Croniter(schedule.expr, now_ms),
        None)

ComputeNextRun(schedule, now_ms) ==
    IF schedule.kind = "at" THEN NextRunAt(schedule, now_ms)
    ELSE IF schedule.kind = "every" THEN NextRunEvery(schedule, now_ms)
    ELSE IF schedule.kind = "cron" /\ schedule.expr # ""
         THEN NextRunCron(schedule, now_ms)
    ELSE None

NewState(next) ==
    [next_run_at_ms |-> next, last_run_at_ms |-> None,
     last_status |-> "none", last_error |-> "none"]

NewJob(id, schedule, del, now_ms) ==
    [id |-> id, enabled |-> TRUE, schedule |-> schedule,
     state |-> NewState(ComputeNextRun(schedule, now_ms)),
     delete_after_run |-> del]

(* The job definitions callers add *)
AddChoices ==
    { <<AtSchedule(2), FALSE>>, <<AtSchedule(2), TRUE>>,
      <<EverySchedule(2), FALSE>>, <<CronSchedule("even", ""), FALSE>> }

(* The batches callers hand to add_jobs_batch *)
BatchChoices == { <<AtSchedule(2), FALSE>>, <<EverySchedule(2), FALSE>> }
Batches == UNION { [1..n -> BatchChoices] : n \in 0..MaxBatch }

----------------------------------------------------------------------------
(* Sequence helpers *)

Ids(jobs) == { jobs[i].id : i \in 1..Len(jobs) }
HasId(jobs, id) == \E i \in 1..Len(jobs) : jobs[i].id = id
JobOf(jobs, id) == jobs[CHOOSE i \in 1..Len(jobs) : jobs[i].id = id]
WithoutId(jobs, id) == SelectSeq(jobs, LAMBDA j : j.id # id)
ReplaceJob(jobs, job) ==
    [i \in 1..Len(jobs) |-> IF jobs[i].id = job.id THEN job ELSE jobs[i]]

----------------------------------------------------------------------------
(* Job Store: the JSON document and load/save *)

ToJson(j) ==
    [id |-> j.id, enabled |-> j.enabled,
     schedule |-> [kind |-> j.schedule.kind, atMs |-> j.schedule.at_ms,
                   everyMs |-> j.schedule.every_ms, expr |-> j.schedule.expr,
                   tz |-> j.schedule.tz],
     state |-> [nextRunAtMs |-> j.state.next_run_at_ms,
                lastRunAtMs |-> j.state.last_run_at_ms,
                lastStatus |-> j.state.last_status,
                lastError |-> j.state.last_error],
     deleteAfterRun |-> j.delete_after_run]

FromJson(d) ==
    [id |-> d.id, enabled |-> d.enabled,
     schedule |-> [kind |-> d.schedule.kind, at_ms |-> d.schedule.atMs,
                   every_ms |-> d.schedule.everyMs, expr |-> d.schedule.expr,
                   tz |-> d.schedule.tz],
     state |-> [next_run_at_ms |-> d.state.nextRunAtMs,
                last_run_at_ms |-> d.state.lastRunAtMs,
                last_status |-> d.state.lastStatus,
                last_error |-> d.state.lastError],
     delete_after_run |-> d.deleteAfterRun]

(* a file whose text is not JSON *)
MalformedJson == << [text |-> "{"] >>

(* a job record without its "id" key *)
MissingId(d) == [k \in DOMAIN d \ {"id"} |-> d[k]]

(* json.loads raises on malformed text *)
JsonLoadsRaises(doc) == doc = MalformedJson

(* building a CronJob raises KeyError when a required key is missing *)
RecordRaises(d) == ~({"id", "schedule"} \subseteq DOMAIN d)

(* the body of the try in _load_store: the jobs, or the fact that it raised *)
ParseJobs(doc) ==
    IF JsonLoadsRaises(doc) \/ \E i \in 1..Len(doc) : RecordRaises(doc[i])
    THEN [raised |-> TRUE, jobs |-> <<>>]
    ELSE [raised |-> FALSE, jobs |-> [i \in 1..Len(doc) |-> FromJson(doc[i])]]

(* LoadOutcome without the except clause: the exception reaches the caller *)
LoadOutcomeUncaught(f) ==
    IF f.mtime = 0 THEN [raised |-> FALSE, jobs |-> <<>>] ELSE ParseJobs(f.jobs)

(* _load_store when self._store is None: an empty collection when there is *)
(* no file, and when parsing raised (the except clause)                    *)
LoadOutcome(f) ==
    IF f.mtime = 0 THEN [raised |-> FALSE, jobs |-> <<>>]
    ELSE IF ParseJobs(f.jobs).raised THEN [raised |-> FALSE, jobs |-> <<>>]
    ELSE ParseJobs(f.jobs)

(* the collection _load_store builds when self._store is None *)
ReadFile(f) == LoadOutcome(f).jobs

(* _load_store: returns the cached collection when there is one *)
LoadStore == IF loaded THEN store ELSE ReadFile(file)

(* _save_store: the whole collection, written at `now` *)
SaveStore(jobs) ==
    [mtime |-> now, jobs |-> [i \in 1..Len(jobs) |-> ToJson(jobs[i])]]

(* _recompute_next_runs *)
RecomputeNextRuns(jobs, now_ms) ==
    [i \in 1..Len(jobs) |->
        IF jobs[i].enabled
        THEN [jobs[i] EXCEPT !.state.next_run_at_ms =
                                 ComputeNextRun(jobs[i].schedule, now_ms)]
        ELSE jobs[i]]

----------------------------------------------------------------------------
(* Executions *)

NoJob == [id |-> 0]

(* An execution of job `id`: phase "created" is a task made by             *)
(* asyncio.create_task that has not run yet, "running" is suspended in     *)
(* `await self.on_job(job)`, "done" has returned from _execute_job: its    *)
(* record then holds the outcome and the final state of its job object,    *)
(* and is dropped by the step that follows.                                *)
NewExec(id, via, phase, start) ==
    [id |-> id, via |-> via, phase |-> phase, attached |-> TRUE,
     job |-> NoJob, start_ms |-> start, outcome |-> "none"]

Live == SelectSeq(execs, LAMBDA x : x.phase # "done")

(* The CronJob object an execution holds a reference to *)
ObjOf(x) == IF x.attached THEN JobOf(store, x.id) ELSE x.job

(* The executions whose object leaves the collection keep it as their own *)
Detach(xs, jobs, gone) ==
    [e \in 1..Len(xs) |->
        IF xs[e].attached /\ xs[e].id \in gone
        THEN [xs[e] EXCEPT !.attached = FALSE, !.job = JobOf(jobs, xs[e].id)]
        ELSE xs[e]]

Created == { e \in 1..Len(Live) : Live[e].phase = "created" }
Running == { e \in 1..Len(Live) : Live[e].phase = "running" }
InFlight(id) == { e \in 1..Len(execs) : execs[e].phase = "running" /\ execs[e].id = id }
Done == { e \in 1..Len(execs) : execs[e].phase = "done" }

(* one more invocation of the callback for `id`; the count stops at 2 *)
Invoked(id) == [calls EXCEPT ![id] = Min(2, @ + 1)]

----------------------------------------------------------------------------
(* Heartbeat loop *)

(* _check_and_run_due_jobs: the due jobs, in collection order *)
IsDue(j, now_ms, inflight) ==
    /\ j.enabled
    /\ Truthy(j.state.next_run_at_ms)
    /\ now_ms >= j.state.next_run_at_ms
    /\ j.id \notin inflight

DueJobs(jobs, now_ms, inflight) ==
    SelectSeq(jobs, LAMBDA j : IsDue(j, now_ms, inflight))

(* _get_next_wake_ms *)
GetNextWakeMs(jobs) ==
    LET times == { jobs[i].state.next_run_at_ms : i \in
                     { k \in 1..Len(jobs) :
                         jobs[k].enabled /\ Truthy(jobs[k].state.next_run_at_ms) } }
    IN IF times = {} THEN None
       ELSE CHOOSE t \in times : \A u \in times : t <= u

(* the loop's sleep_time: the ceiling, or the time to the next job clamped *)
(* to [floor, ceiling]                                                     *)
SleepTime(jobs, now_ms) ==
    LET next_wake == GetNextWakeMs(jobs)
    IN IF Truthy(next_wake)
       THEN Min(SleepCeiling, Max(SleepFloor, next_wake - now_ms))
       ELSE SleepCeiling

(* `a >= b`, `a - b` or min() over values one of which is None: TypeError *)
NoneOperand(a, b) == a = None \/ b = None

(* the scan's filter raises when a job reaches `now >= next_run_at_ms`     *)
(* with no next run: the comparison is evaluated only after the flag and  *)
(* the truthiness of next_run_at_ms                                        *)
ScanRaises(jobs, now_ms) ==
    \E i \in 1..Len(jobs) :
        /\ jobs[i].enabled
        /\ Truthy(jobs[i].state.next_run_at_ms)
        /\ NoneOperand(now_ms, jobs[i].state.next_run_at_ms)

(* min(times) and next_wake - _now_ms() raise when `times` holds a None *)
SleepRaises(jobs, now_ms) ==
    \E i \in 1..Len(jobs) :
        /\ jobs[i].enabled
        /\ Truthy(jobs[i].state.next_run_at_ms)
        /\ NoneOperand(jobs[i].state.next_run_at_ms, now_ms)

(* the loop's exception handlers: CancelledError breaks out of the loop,   *)
(* any other exception is logged and followed by a sleep of the ceiling    *)
ExceptHandlerBreaks(exc) == "stopped"

ExceptHandler(exc) ==
    IF exc = "CancelledError" THEN "stopped" ELSE "errsleep"

(* FileChanged taking an unchanged modification time as a change *)
FileChangedOrSame(f, last) == f.mtime > 0 /\ f.mtime >= last

(* the hot-reload test: the file exists and its modification time is later *)
(* than the last one the loop saw                                          *)
FileChanged(f, last) == f.mtime > 0 /\ f.mtime > last

(* One pass of the body of `while self._running`, from the mtime check to  *)
(* the suspension in wait_for (or in the error handler's sleep).  `ev` is  *)
(* the wake event at the start of the pass; `fail` is where the pass       *)
(* raises, if it does: in stat(), in the scan, or computing the sleep.     *)
(* A pass also raises when the scan or the sleep computation meets a None  *)
(* operand.  `suspends` is whether wait_for always suspends the loop task. *)
CycleBody(ev, fail, suspends) ==
    LET reload == fail # "stat" /\ FileChanged(file, last_mtime)
        \* store' and loaded' are self._store as the reload step left it
        raised == \/ fail # "none"
                  \/ reload /\ LoadOutcome(file).raised
                  \/ loaded' /\ (ScanRaises(store', now) \/ SleepRaises(store', now))
        due    == IF fail \in {"stat", "scan"} \/ ~loaded' \/ ScanRaises(store', now)
                  THEN <<>>
                  ELSE DueJobs(store', now, running_jobs)
    IN /\ running
       /\ IF fail = "none" THEN ops' = ops ELSE ops < MaxOps /\ ops' = ops + 1
       /\ store' = IF reload THEN RecomputeNextRuns(ReadFile(file), now) ELSE store
       /\ loaded' = IF reload THEN ~LoadOutcome(file).raised ELSE loaded
       /\ last_mtime' = IF reload /\ ~LoadOutcome(file).raised
                        THEN file.mtime ELSE last_mtime
       /\ execs' = (IF reload /\ loaded THEN Detach(Live, store, Ids(store)) ELSE Live)
                   \o [i \in 1..Len(due) |->
                          NewExec(due[i].id, "scan", "created", None)]
       /\ Len(execs') <= MaxExecs
       /\ IF raised
          THEN /\ loop_pc' = ExceptHandler("Exception")
               /\ wake_at' = now + SleepCeiling
               /\ wakeup' = ev
               /\ loop_errors' = TRUE
          ELSE /\ loop_errors' = loop_errors
               /\ wake_at' = now + SleepTime(store', now)
               /\ \/ loop_pc' = "waiting" /\ wakeup' = ev
                  \* wait_for returns without suspending when the event is
                  \* already set (asyncio of Python >= 3.12): the loop clears
                  \* it and runs the next pass before any other task runs
                  \/ ~suspends /\ ev /\ loop_pc' = "spin" /\ wakeup' = FALSE
       /\ UNCHANGED <<ext_vars, calc, mut, now, file, running, running_jobs, calls, next_id, ext_ids>>

Fails == {"none", "stat", "scan", "sleep"}

(* A task resumes only after the tasks made ready before it have run: the  *)
(* executions created by a pass start before the loop's next pass          *)
LoopResumes == Created = {}

(* first pass of a freshly created loop task *)
LoopFirstCycle(suspends) ==
    /\ loop_pc = "ready" /\ LoopResumes
    /\ \E fail \in Fails : CycleBody(wakeup, fail, suspends)

(* the wait ended by the wake event: the event is cleared *)
LoopWake(suspends) ==
    /\ loop_pc = "waiting" /\ wakeup /\ LoopResumes
    /\ \E fail \in Fails : CycleBody(FALSE, fail, suspends)

(* the wait ended by its timeout *)
LoopTimeout(suspends) ==
    /\ loop_pc = "waiting" /\ now >= wake_at /\ LoopResumes
    /\ \E fail \in Fails : CycleBody(wakeup, fail, suspends)

(* the error handler's sleep is over *)
LoopErrSleepDone(suspends) ==
    /\ loop_pc = "errsleep" /\ now >= wake_at /\ LoopResumes
    /\ \E fail \in Fails : CycleBody(wakeup, fail, suspends)

(* the pass that follows a wait_for that did not suspend *)
LoopSpin ==
    /\ loop_pc = "spin"
    /\ \E fail \in Fails : CycleBody(wakeup, fail, FALSE)

----------------------------------------------------------------------------
(* Job executor *)

(* ExecStart for a scan that awaited each execution in turn: a callback    *)
(* starts only when no other is suspended                                  *)
ExecStartSerial(e) ==
    /\ e \in Created
    /\ \A d \in Created : e <= d
    /\ Running = {}
    /\ running_jobs' = running_jobs \cup {Live[e].id}
    /\ execs' = [Live EXCEPT ![e].phase = "running", ![e].start_ms = now]
    /\ calls' = IF Live[e].via = "scan" THEN Invoked(Live[e].id) ELSE calls
    /\ UNCHANGED <<ext_vars, calc, mut, now, file, store, loaded, running, wakeup, loop_pc,
                   last_mtime, wake_at, next_id, ops, ext_ids, loop_errors>>

(* _execute_job up to the suspension in the callback: the id enters the     *)
(* in-flight set, the start time is taken, the callback is invoked.  Tasks  *)
(* start in the order they were created.                                    *)
ExecStart(e) ==
    /\ e \in Created
    /\ \A d \in Created : e <= d
    /\ running_jobs' = running_jobs \cup {Live[e].id}
    /\ execs' = [Live EXCEPT ![e].phase = "running", ![e].start_ms = now]
    /\ calls' = IF Live[e].via = "scan" THEN Invoked(Live[e].id) ELSE calls
    /\ UNCHANGED <<ext_vars, calc, mut, now, file, store, loaded, running, wakeup, loop_pc,
                   last_mtime, wake_at, next_id, ops, ext_ids, loop_errors>>

(* RecordOutcome without the except branch: a raise is recorded as ok *)
RecordOutcomeAlwaysOk(job, outcome, start) ==
    [job EXCEPT !.state.last_status = "ok",
                !.state.last_error = "none",
                !.state.last_run_at_ms = start]

(* the state a finished callback leaves on the job object *)
RecordOutcome(job, outcome, start) ==
    [job EXCEPT !.state.last_status = outcome,
                !.state.last_error = IF outcome = "ok" THEN "none" ELSE "msg",
                !.state.last_run_at_ms = start]

(* Rearm computing the next run from the start of the run, not from now *)
RearmFromStart(job, now_ms) ==
    IF job.schedule.kind = "at"
    THEN IF job.delete_after_run THEN job
         ELSE [job EXCEPT !.enabled = FALSE, !.state.next_run_at_ms = None]
    ELSE [job EXCEPT !.state.next_run_at_ms =
                         ComputeNextRun(job.schedule, job.state.last_run_at_ms)]

(* the post-run schedule update on the job object *)
Rearm(job, now_ms) ==
    IF job.schedule.kind = "at"
    THEN IF job.delete_after_run THEN job
         ELSE [job EXCEPT !.enabled = FALSE, !.state.next_run_at_ms = None]
    ELSE [job EXCEPT !.state.next_run_at_ms = ComputeNextRun(job.schedule, now_ms)]

(* StoreAfterRun putting the job of the execution back into the collection *)
StoreAfterRunPutsBack(jobs, x, job) ==
    IF HasId(jobs, job.id) THEN ReplaceJob(jobs, job) ELSE Append(jobs, job)

(* the collection after the execution `x` has written `job` to its object:  *)
(* a write to an object that is in the collection shows in the collection;  *)
(* a deleted one-shot job is filtered out by id                             *)
StoreAfterRun(jobs, x, job) ==
    LET written == IF x.attached THEN ReplaceJob(jobs, job) ELSE jobs
    IN IF job.schedule.kind = "at" /\ job.delete_after_run
       THEN WithoutId(written, job.id)
       ELSE written

(* _execute_job from the return (or raise) of the callback to its end *)
ExecComplete(e, outcome) ==
    /\ e \in Running
    /\ LET x      == Live[e]
           job    == Rearm(RecordOutcome(ObjOf(x), outcome, x.start_ms), now)
           jobs1  == StoreAfterRun(store, x, job)
           gone   == Ids(store) \ Ids(jobs1)
           execs1 == Detach(Live,
                            IF x.attached THEN ReplaceJob(store, job) ELSE store,
                            gone)
       IN /\ store' = jobs1
          /\ execs' = [execs1 EXCEPT ![e].phase = "done", ![e].job = job,
                                     ![e].attached = x.attached,
                                     ![e].outcome = outcome]
          /\ running_jobs' = running_jobs \ {x.id}
          /\ file' = SaveStore(jobs1)
    /\ UNCHANGED <<ext_vars, calc, mut, now, loaded, running, wakeup, loop_pc, last_mtime, wake_at,
                   calls, next_id, ops, ext_ids, loop_errors>>

Outcomes == {"ok", "error"}

----------------------------------------------------------------------------
(* Mutation API *)

WakeupEventSetDropped(changed) == wakeup

(* self._wakeup_event.set(), reached when the mutation changed something *)
WakeupEventSet(changed) == changed \/ wakeup

(* the CronJob objects add_jobs_batch builds for the definitions `defs`,   *)
(* in input order; ids[i] is the value str(uuid.uuid4())[:8] of the i-th   *)
NewJobs(defs, ids, now_ms) ==
    [i \in 1..Len(defs) |-> NewJob(ids[i], defs[i][1], defs[i][2], now_ms)]

(* uuid4 values that collide neither with each other nor with an id handed *)
(* out before                                                              *)
FreshIds(n) == [i \in 1..n |-> next_id + i]

(* BatchWrites saving after each append instead of once after the loop *)
BatchWritesEach(defs, ids, jobs0) ==
    [k \in 1..Len(defs) |->
        SaveStore(jobs0 \o SubSeq(NewJobs(defs, ids, now), 1, k))]

(* the documents add_jobs_batch writes to the file, in order: none for an  *)
(* empty batch, else one, made after store.jobs.extend(new_jobs)           *)
BatchWrites(defs, ids, jobs0) ==
    IF defs = << >> THEN << >>
    ELSE << SaveStore(jobs0 \o NewJobs(defs, ids, now)) >>

(* add_jobs_batch *)
AddJobsBatch(defs, ids) ==
    /\ Len(ids) = Len(defs)
    /\ next_id + Len(defs) <= MaxJobs
    /\ IF defs = << >>
       THEN UNCHANGED <<store, file, loaded, wakeup>>
       ELSE LET writes == BatchWrites(defs, ids, LoadStore)
            IN /\ store' = LoadStore \o NewJobs(defs, ids, now)
               /\ file' = writes[Len(writes)]
               /\ loaded' = TRUE
               /\ wakeup' = WakeupEventSet(TRUE)
    /\ next_id' = next_id + Len(defs)
    /\ execs' = Live
    /\ UNCHANGED <<ext_vars, calc, mut, now, running, running_jobs, loop_pc, last_mtime, wake_at,
                   calls, ops, ext_ids, loop_errors>>

(* add_job: add_jobs_batch with one definition *)
AddJob(schedule, del) ==
    AddJobsBatch(<< <<schedule, del>> >>, FreshIds(1))

(* Removed reporting a removal whatever the lengths *)
RemovedAlways(jobs0, id) == TRUE

(* remove_job's result: the collection got shorter *)
Removed(jobs0, id) == Len(WithoutId(jobs0, id)) < Len(jobs0)

(* remove_job *)
RemoveJob(id) ==
    LET jobs0   == LoadStore
        jobs1   == WithoutId(jobs0, id)
        removed == Removed(jobs0, id)
    IN /\ store' = jobs1
       /\ loaded' = TRUE
       /\ execs' = IF removed THEN Detach(Live, jobs0, {id}) ELSE Live
       /\ file' = IF removed THEN SaveStore(jobs1) ELSE file
       /\ wakeup' = WakeupEventSet(removed)
       /\ ops < MaxOps /\ ops' = ops + 1
       /\ UNCHANGED <<ext_vars, calc, mut, now, running, running_jobs, loop_pc, last_mtime, wake_at,
                      calls, next_id, ext_ids, loop_errors>>

(* EnabledJob setting the flag only *)
EnabledJobFlagOnly(job0, enabled, now_ms) ==
    [job0 EXCEPT !.enabled = enabled]

(* the job as enable_job leaves it *)
EnabledJob(job0, enabled, now_ms) ==
    [job0 EXCEPT !.enabled = enabled,
                 !.state.next_run_at_ms =
                     IF enabled THEN ComputeNextRun(job0.schedule, now_ms)
                     ELSE None]

(* enable_job *)
EnableJob(id, enabled) ==
    LET jobs0 == LoadStore
        found == HasId(jobs0, id)
        job0  == JobOf(jobs0, id)
        job1  == EnabledJob(job0, enabled, now)
        jobs1 == IF found THEN ReplaceJob(jobs0, job1) ELSE jobs0
    IN /\ store' = jobs1
       /\ loaded' = TRUE
       /\ file' = IF found THEN SaveStore(jobs1) ELSE file
       /\ wakeup' = WakeupEventSet(found)
       /\ execs' = Live
       /\ calls' = IF found /\ enabled THEN [calls EXCEPT ![id] = 0] ELSE calls
       /\ ops < MaxOps /\ ops' = ops + 1
       /\ UNCHANGED <<ext_vars, calc, mut, now, running, running_jobs, loop_pc, last_mtime, wake_at,
                      next_id, ext_ids, loop_errors>>

(* RunJobRuns without the check of the enabled flag *)
RunJobRunsAny(jobs0, id, force) == HasId(jobs0, id)

(* run_job's result: the job exists and is enabled or forced *)
RunJobRuns(jobs0, id, force) ==
    HasId(jobs0, id) /\ (force \/ JobOf(jobs0, id).enabled)

(* run_job up to the suspension in the callback: _execute_job runs inline   *)
(* in the caller's task, so the execution starts at once                    *)
RunJob(id, force) ==
    LET jobs0 == LoadStore
        runs  == RunJobRuns(jobs0, id, force)
    IN /\ Len(Live) < MaxExecs
       /\ store' = jobs0
       /\ loaded' = TRUE
       /\ execs' = IF runs THEN Append(Live, NewExec(id, "run_job", "running", now))
                   ELSE Live
       /\ running_jobs' = IF runs THEN running_jobs \cup {id} ELSE running_jobs
       /\ ops < MaxOps /\ ops' = ops + 1
       /\ UNCHANGED <<ext_vars, calc, mut, now, file, running, wakeup, loop_pc, last_mtime, wake_at,
                      calls, next_id, ext_ids, loop_errors>>

(* start: load, recompute, save, create the loop task *)
Start ==
    /\ loop_pc = "none"
    /\ LET jobs1 == RecomputeNextRuns(LoadStore, now)
       IN /\ store' = jobs1
          /\ file' = SaveStore(jobs1)
    /\ loaded' = TRUE
    /\ running' = TRUE
    /\ loop_pc' = "ready"
    /\ last_mtime' = 0
    /\ execs' = Live
    /\ UNCHANGED <<ext_vars, calc, mut, now, running_jobs, wakeup, wake_at, calls, next_id, ops, ext_ids,
                   loop_errors>>

StopCancelling ==
    /\ running' = FALSE
    /\ loop_pc' = IF loop_pc = "none" THEN "none" ELSE ExceptHandler("CancelledError")
    /\ execs' = << >>
    /\ ops < MaxOps /\ ops' = ops + 1
    /\ running_jobs' = {}
    /\ UNCHANGED <<ext_vars, calc, mut, now, file, store, loaded, wakeup, last_mtime,
                   wake_at, calls, next_id, ext_ids, loop_errors>>

(* stop: clear the flag, cancel the loop task (and nothing else) *)
Stop ==
    /\ running' = FALSE
    /\ loop_pc' = IF loop_pc = "none" THEN "none" ELSE ExceptHandler("CancelledError")
    /\ execs' = Live
    /\ ops < MaxOps /\ ops' = ops + 1
    /\ UNCHANGED <<ext_vars, calc, mut, now, file, store, loaded, running_jobs, wakeup, last_mtime,
                   wake_at, calls, next_id, ext_ids, loop_errors>>

----------------------------------------------------------------------------
(* Environment *)

(* another process (a second CronService on the same path, as the CLI's    *)
(* `cron add` makes) reads the file, appends a job and writes it back       *)
ExternalAdd(schedule, del) ==
    /\ next_id < MaxJobs
    /\ LET jobs1 == Append(ReadFile(file), NewJob(next_id + 1, schedule, del, now))
       IN file' = SaveStore(jobs1)
    /\ next_id' = next_id + 1
    /\ ext_ids' = ext_ids \cup {next_id + 1}
    /\ execs' = Live
    /\ ops < MaxOps /\ ops' = ops + 1
    /\ UNCHANGED <<ext_vars, calc, mut, now, store, loaded, running, running_jobs, wakeup, loop_pc,
                   last_mtime, wake_at, calls, loop_errors>>

(* what a writer that corrupts the file leaves in it *)
CorruptDocs(f) ==
    { MalformedJson,
      (IF f.mtime = 0 \/ JsonLoadsRaises(f.jobs) THEN <<>> ELSE f.jobs)
          \o << MissingId(ToJson(NewJob(0, EverySchedule(1), FALSE, now))) >> }

(* another process (or an editor) leaves a file that cannot be parsed *)
ExternalCorrupt(doc) ==
    /\ file' = [mtime |-> now, jobs |-> doc]
    /\ execs' = Live
    /\ ops < MaxOps /\ ops' = ops + 1
    /\ UNCHANGED <<ext_vars, calc, mut, now, store, loaded, running, running_jobs, wakeup, loop_pc,
                   last_mtime, wake_at, calls, next_id, ext_ids, loop_errors>>

Tick ==
    /\ now < MaxTime
    /\ now' = now + 1
    /\ execs' = Live
    /\ UNCHANGED <<ext_vars, calc, mut, file, store, loaded, running, running_jobs, wakeup, loop_pc,
                   last_mtime, wake_at, calls, next_id, ops, ext_ids, loop_errors>>

----------------------------------------------------------------------------
(* Specification *)

JobIds == 1..MaxJobs

(* no call of _compute_next_run on its own *)
CalcIdle ==
    [schedule |-> AtSchedule(None), now_ms |-> 0, pc |-> "idle", result |-> None]

(* no mutation call is inside the lock *)
MutIdle ==
    [phase |-> "idle", lock |-> FALSE, ops |-> << >>, pc |-> << >>,
     loc |-> << >>, base |-> [jobs |-> << >>, doc |-> << >>, wake |-> FALSE]]

InitService ==
    /\ now = 1
    /\ file = [mtime |-> 0, jobs |-> <<>>]
    /\ store = <<>>
    /\ loaded = FALSE
    /\ running = FALSE
    /\ running_jobs = {}
    /\ wakeup = FALSE
    /\ loop_pc = "none"
    /\ last_mtime = 0
    /\ wake_at = 0
    /\ execs = <<>>
    /\ calls = [id \in JobIds |-> 0]
    /\ next_id = 0
    /\ ops = 0
    /\ ext_ids = {}
    /\ loop_errors = FALSE
    /\ mut = MutIdle

(* no call of execute_cron_job on its own *)
CbIdle == [pc |-> "idle"]

(* no LoopDetector *)
DetectorIdle == [pc |-> "idle"]

(* no ContextBuilder *)
BuilderIdle == [pc |-> "idle"]

NoTasks == tasks = << >> /\ timer_task = 0

(* no second instance *)
PeerIdle == [pc |-> "idle"]

(* the service alone, built with its callback *)
Wired == on_job = TRUE /\ peer = PeerIdle

(* no save and load on their own *)
CodecIdle == [pc |-> "idle"]

NoCodec == codec = CodecIdle

ExtIdle ==
    /\ cb = CbIdle /\ detector = DetectorIdle /\ builder = BuilderIdle /\ NoTasks
    /\ Wired /\ NoCodec

Init == InitService /\ calc = CalcIdle /\ ExtIdle

(* the tasks of the service's event loop: none of them runs while the loop  *)
(* task is between a wait_for that did not suspend and its next pass        *)
Yielded == loop_pc \notin {"none", "spin"}

(* the steps of everything but the heartbeat loop *)
Others ==
    \/ Yielded /\ \E e \in 1..Len(Live) : ExecStart(e)
    \/ Yielded /\ \E e \in 1..Len(Live), outcome \in Outcomes : ExecComplete(e, outcome)
    \/ Yielded /\ \E c \in AddChoices : AddJob(c[1], c[2])
    \/ Yielded /\ \E defs \in Batches : AddJobsBatch(defs, FreshIds(Len(defs)))
    \/ Yielded /\ \E id \in JobIds : RemoveJob(id)
    \/ Yielded /\ \E id \in JobIds, enabled \in BOOLEAN : EnableJob(id, enabled)
    \/ Yielded /\ \E id \in JobIds, force \in BOOLEAN : RunJob(id, force)
    \/ Start
    \/ Yielded /\ Stop
    \/ \E c \in AddChoices : ExternalAdd(c[1], c[2])
    \/ Tick

Next ==
    \/ LoopFirstCycle(FALSE)
    \/ LoopWake(FALSE)
    \/ LoopTimeout(FALSE)
    \/ LoopErrSleepDone(FALSE)
    \/ LoopSpin
    \/ Others

Spec == Init /\ [][Next]_vars

(* The service on an asyncio whose wait_for always suspends the loop task  *)
(* (Python 3.11): its behaviours are behaviours of Spec                    *)
NextSuspending ==
    \/ LoopFirstCycle(TRUE)
    \/ LoopWake(TRUE)
    \/ LoopTimeout(TRUE)
    \/ LoopErrSleepDone(TRUE)
    \/ Others

SpecSuspending == Init /\ [][NextSuspending]_vars

(* the steps of the execution tasks *)
ExecSteps ==
    \/ \E e \in 1..Len(Live) : ExecStart(e)
    \/ \E e \in 1..Len(Live), outcome \in Outcomes : ExecComplete(e, outcome)

(* The service from start to shutdown with add_job as its only mutation.   *)
(* The event loop runs every task that is ready, and the callback is taken *)
(* to return or raise eventually: the execution steps are weakly fair.     *)
NextShutdown ==
    \/ LoopFirstCycle(TRUE)
    \/ LoopWake(TRUE)
    \/ LoopTimeout(TRUE)
    \/ LoopErrSleepDone(TRUE)
    \/ Yielded /\ ExecSteps
    \/ Yielded /\ \E c \in AddChoices : AddJob(c[1], c[2])
    \/ Start
    \/ Yielded /\ Stop
    \/ Tick

SpecShutdown ==
    Init /\ [][NextShutdown]_vars /\ WF_vars(Yielded /\ ExecSteps)

----------------------------------------------------------------------------
(* Two mutation calls in flight at once.  Under asyncio a call runs from    *)
(* `async with self._lock` to its release without an await that suspends,  *)
(* which the actions above model.  The specification below lets a call be  *)
(* descheduled between taking the lock and its modification of the         *)
(* collection, as any await there would allow: its behaviours include      *)
(* those of the code, and in it the lock is what keeps the calls apart.    *)

AddOp(defs, ids) ==
    [kind |-> "add", defs |-> defs, ids |-> ids, id |-> 0, enabled |-> FALSE]
RemoveOp(id) ==
    [kind |-> "remove", defs |-> << >>, ids |-> << >>, id |-> id, enabled |-> FALSE]
EnableOp(id, enabled) ==
    [kind |-> "enable", defs |-> << >>, ids |-> << >>, id |-> id, enabled |-> enabled]

(* the calls two callers issue; the ids are those uuid4 will give them *)
MutOps(first) ==
    { AddOp(defs, [i \in 1..Len(defs) |-> first + i]) :
          defs \in { b \in Batches : first + Len(b) <= MaxJobs } }
    \cup { RemoveOp(id) : id \in JobIds }
    \cup { EnableOp(id, en) : id \in JobIds, en \in BOOLEAN }

Doc(jobs) == [i \in 1..Len(jobs) |-> ToJson(jobs[i])]

(* the collection, the file's jobs and the wake event *)
Visible == [jobs |-> LoadStore, doc |-> file.jobs, wake |-> wakeup]

(* one mutation call run alone from `st` *)
ApplyMut(op, st) ==
    IF op.kind = "add" THEN
        IF op.defs = << >> THEN st
        ELSE LET jobs1 == st.jobs \o NewJobs(op.defs, op.ids, now)
             IN [jobs |-> jobs1, doc |-> Doc(jobs1), wake |-> TRUE]
    ELSE IF op.kind = "remove" THEN
        LET jobs1 == WithoutId(st.jobs, op.id)
        IN IF Len(jobs1) < Len(st.jobs)
           THEN [jobs |-> jobs1, doc |-> Doc(jobs1), wake |-> TRUE]
           ELSE st
    ELSE
        IF HasId(st.jobs, op.id)
        THEN LET job0 == JobOf(st.jobs, op.id)
                 job1 == [job0 EXCEPT !.enabled = op.enabled,
                                      !.state.next_run_at_ms =
                                          IF op.enabled
                                          THEN ComputeNextRun(job0.schedule, now)
                                          ELSE None]
                 jobs1 == ReplaceJob(st.jobs, job1)
             IN [jobs |-> jobs1, doc |-> Doc(jobs1), wake |-> TRUE]
        ELSE st

(* two callers issue one mutation call each *)
MutIssue(a, b) ==
    /\ mut.phase = "idle" /\ loop_pc = "ready"
    /\ mut' = [phase |-> "issued", lock |-> FALSE, ops |-> <<a, b>>,
               pc |-> <<"new", "new">>,
               loc |-> <<[before |-> 0, target |-> 0], [before |-> 0, target |-> 0]>>,
               base |-> Visible]
    /\ next_id' = next_id + Len(a.ids) + Len(b.ids)
    /\ UNCHANGED <<ext_vars, calc, now, file, store, loaded, running, running_jobs, wakeup, loop_pc,
                   last_mtime, wake_at, execs, calls, ops, ext_ids, loop_errors>>

LockAlwaysAcquirable(locked) == TRUE

(* asyncio.Lock.acquire returns at once when the lock is free, and        *)
(* otherwise suspends the caller until it is released                     *)
LockAcquirable(locked) == ~locked

(* a call takes the lock, loads the store and reads what it keeps in       *)
(* locals: remove_job the length before, enable_job the job it found       *)
MutBegin(c) ==
    /\ mut.phase = "issued" /\ mut.pc[c] = "new"
    /\ LET op == mut.ops[c]
           jobs0 == LoadStore
           empty == op.kind = "add" /\ op.defs = << >>
       IN IF empty
          THEN \* add_jobs_batch returns before it reaches the lock
               /\ mut' = [mut EXCEPT !.pc[c] = "done"]
               /\ UNCHANGED <<store, loaded>>
          ELSE /\ LockAcquirable(mut.lock)
               /\ mut' = [mut EXCEPT
                             !.lock = TRUE,
                             !.pc[c] = "locked",
                             !.loc[c] = [before |-> Len(jobs0),
                                         target |-> IF op.kind = "enable"
                                                       /\ HasId(jobs0, op.id)
                                                    THEN op.id ELSE 0]]
               /\ store' = jobs0
               /\ loaded' = TRUE
    /\ UNCHANGED <<ext_vars, calc, now, file, running, running_jobs, wakeup, loop_pc, last_mtime,
                   wake_at, execs, calls, next_id, ops, ext_ids, loop_errors>>

(* the call modifies the collection, saves, sets the wake event and        *)
(* releases the lock                                                       *)
MutEnd(c) ==
    /\ mut.phase = "issued" /\ mut.pc[c] = "locked"
    /\ LET op == mut.ops[c]
           l  == mut.loc[c]
           jobs1 ==
               IF op.kind = "add" THEN store \o NewJobs(op.defs, op.ids, now)
               ELSE IF op.kind = "remove" THEN WithoutId(store, op.id)
               ELSE IF l.target # 0 /\ HasId(store, op.id)
                    THEN LET job0 == JobOf(store, op.id)
                         IN ReplaceJob(store,
                                [job0 EXCEPT !.enabled = op.enabled,
                                             !.state.next_run_at_ms =
                                                 IF op.enabled
                                                 THEN ComputeNextRun(job0.schedule, now)
                                                 ELSE None])
                    ELSE store
           saves ==
               IF op.kind = "add" THEN TRUE
               ELSE IF op.kind = "remove" THEN Len(jobs1) < l.before
               ELSE l.target # 0
       IN /\ store' = jobs1
          /\ file' = IF saves THEN SaveStore(jobs1) ELSE file
          /\ wakeup' = WakeupEventSet(saves)
    /\ mut' = [mut EXCEPT !.lock = FALSE, !.pc[c] = "done"]
    /\ UNCHANGED <<ext_vars, calc, now, loaded, running, running_jobs, loop_pc, last_mtime,
                   wake_at, execs, calls, next_id, ops, ext_ids, loop_errors>>

NextMutations ==
    \/ Start
    \/ mut.phase = "idle" /\ loop_pc = "ready"
          /\ \E c \in AddChoices : AddJob(c[1], c[2])
    \/ \E a \in MutOps(next_id) :
          \E b \in MutOps(next_id + Len(a.ids)) : MutIssue(a, b)
    \/ \E c \in 1..2 : MutBegin(c)
    \/ \E c \in 1..2 : MutEnd(c)

SpecMutations == Init /\ [][NextMutations]_vars

----------------------------------------------------------------------------
(* The ids of new jobs.  An id is the first 8 hex digits of a uuid4: a     *)
(* random value that add_jobs_batch compares with nothing.  Spec takes the *)
(* draws that do not collide (FreshIds); the specification below takes     *)
(* every draw.                                                             *)

DrawIds(n) == [1..n -> JobIds]

NextIds ==
    \/ Start
    \/ loop_pc = "ready"
          /\ \E defs \in Batches : \E ids \in DrawIds(Len(defs)) : AddJobsBatch(defs, ids)
    \/ Tick

SpecIds == Init /\ [][NextIds]_vars

----------------------------------------------------------------------------
(* _compute_next_run on its own: a call with arguments drawn from the      *)
(* schedules and instants below, and its return                            *)

CalcTimes == 0..(MaxTime + 1)

CalcSchedules ==
    { AtSchedule(t) : t \in CalcTimes }
    \cup { EverySchedule(d) : d \in {None, 0 - MaxTime, 0} \cup (1..MaxTime) }
    \cup { CronSchedule(expr, tz) : expr \in {"", "even", "bad"},
                                    tz \in {"", "utc", "east", "mars"} }

InitNextRun ==
    /\ InitService /\ ExtIdle
    /\ calc \in { [schedule |-> sch, now_ms |-> t, pc |-> "called", result |-> None] :
                     sch \in CalcSchedules, t \in CalcTimes }

CalcReturn ==
    /\ calc.pc = "called"
    /\ calc' = [calc EXCEPT !.pc = "returned",
                            !.result = ComputeNextRun(calc.schedule, calc.now_ms)]
    /\ UNCHANGED <<service_vars, ext_vars>>

NextNextRun == CalcReturn

SpecNextRun == InitNextRun /\ [][NextNextRun]_vars

----------------------------------------------------------------------------
(* Jobs whose schedule has no next occurrence.  The service with callers   *)
(* and an external writer that add such jobs, next to jobs with a short    *)
(* interval; run_job is the only other call.                               *)

DormantChoices ==
    { <<EverySchedule(0), FALSE>>, <<EverySchedule(None), FALSE>>,
      <<EverySchedule(0 - MaxTime), FALSE>>, <<CronSchedule("bad", ""), FALSE>>,
      <<EverySchedule(1), FALSE>> }

NextDormant ==
    \/ LoopFirstCycle(TRUE)
    \/ LoopWake(TRUE)
    \/ LoopTimeout(TRUE)
    \/ LoopErrSleepDone(TRUE)
    \/ Yielded /\ ExecSteps
    \/ Yielded /\ \E c \in DormantChoices : AddJob(c[1], c[2])
    \/ Yielded /\ \E id \in JobIds, force \in BOOLEAN : RunJob(id, force)
    \/ Start
    \/ \E c \in DormantChoices : ExternalAdd(c[1], c[2])
    \/ Tick

SpecDormant == Init /\ [][NextDormant]_vars

----------------------------------------------------------------------------
(* Loading a file that cannot be parsed.  The service with add_job as its  *)
(* only call and a writer that corrupts the file, before or after start(). *)

NextLoad ==
    \/ LoopFirstCycle(TRUE)
    \/ LoopWake(TRUE)
    \/ LoopTimeout(TRUE)
    \/ LoopErrSleepDone(TRUE)
    \/ Yielded /\ ExecSteps
    \/ Yielded /\ \E c \in AddChoices : AddJob(c[1], c[2])
    \/ Start
    \/ \E doc \in CorruptDocs(file) : ExternalCorrupt(doc)
    \/ Tick

SpecLoad == Init /\ [][NextLoad]_vars

----------------------------------------------------------------------------
(* The callback the gateway installs as on_job: execute_cron_job           *)
(* (src/nanobot/cli/commands.py), called for a job with a given payload,   *)
(* and the status _execute_job records for its outcome.                    *)

(* Python's None for the optional string fields *)
NoneStr == "<None>"

(* truthiness of a `str | None` value: None and "" are falsy *)
TruthyStr(x) == x # NoneStr /\ x # ""

(* str.strip() on the strings of the model *)
Strip(x) ==
    IF x = "  " THEN ""
    ELSE IF x = " text " THEN "text"
    ELSE IF x = " Hello " THEN "Hello"
    ELSE x

(* `a or b` *)
Or(a, b) == IF TruthyStr(a) THEN a ELSE b

Payloads ==
    [kind : {"echo", "agent_turn"}, message : {"", "task"}, deliver : BOOLEAN,
     channel : {NoneStr, "telegram"}, to : {NoneStr, "", "user1"}]

(* what agent.process_direct returns *)
Responses == {NoneStr, "", "  ", "text", " text "}

FallbackText == "Agent produced empty response."

OutboundMessage(payload, content) ==
    [channel |-> Or(payload.channel, "cli"), chat_id |-> payload.to,
     content |-> content]

InitCallback ==
    /\ InitService /\ calc = CalcIdle /\ detector = DetectorIdle
    /\ builder = BuilderIdle /\ NoTasks /\ Wired /\ NoCodec
    /\ cb \in { [pc |-> "called", payload |-> p, response |-> NoneStr,
                  published |-> << >>, raised |-> FALSE, result |-> NoneStr,
                  last_status |-> "none"] : p \in Payloads }

(* the status _execute_job leaves on the job for a callback that returned  *)
(* or raised                                                               *)
StatusFor(raised) ==
    RecordOutcome(NewJob(1, EverySchedule(1), FALSE, 0),
                  IF raised THEN "error" ELSE "ok", 0).state.last_status

(* execute_cron_job up to its first suspension: an echo job publishes its  *)
(* message when it has a target and returns it; a delegated job hands its  *)
(* instruction to the agent                                                *)
CallbackStart ==
    /\ cb.pc = "called"
    /\ IF cb.payload.kind = "echo"
       THEN cb' = [cb EXCEPT
                      !.pc = "returned",
                      !.published =
                          IF TruthyStr(cb.payload.to)
                          THEN << OutboundMessage(cb.payload, cb.payload.message) >>
                          ELSE << >>,
                      !.result = cb.payload.message,
                      !.last_status = StatusFor(FALSE)]
       ELSE cb' = [cb EXCEPT !.pc = "agent"]
    /\ UNCHANGED <<service_vars, calc, detector, builder, tasks, timer_task, on_job, peer, codec>>

(* the else branch of the delivery: the job delivers, has a target, and    *)
(* the response is None, empty or blank                                    *)
DeliveryEmpty(payload, response) ==
    /\ payload.deliver /\ TruthyStr(payload.to)
    /\ ~(TruthyStr(response) /\ TruthyStr(Strip(response)))

(* the agent has returned `response`: deliver it, or publish the fallback  *)
(* and raise ValueError; _execute_job records the outcome                  *)
CallbackAgentReturns(response) ==
    /\ cb.pc = "agent"
    /\ LET p == cb.payload
           delivers == p.deliver /\ TruthyStr(p.to)
           empty == DeliveryEmpty(p, response)
       IN cb' = [cb EXCEPT
                    !.pc = "returned",
                    !.response = response,
                    !.published =
                        IF empty THEN << OutboundMessage(p, FallbackText) >>
                        ELSE IF delivers THEN << OutboundMessage(p, response) >>
                        ELSE << >>,
                    !.raised = empty,
                    !.result = IF empty THEN NoneStr ELSE response,
                    !.last_status = StatusFor(empty)]
    /\ UNCHANGED <<service_vars, calc, detector, builder, tasks, timer_task, on_job, peer, codec>>

NextCallback ==
    \/ CallbackStart
    \/ \E response \in Responses : CallbackAgentReturns(response)

SpecCallback == InitCallback /\ [][NextCallback]_vars

----------------------------------------------------------------------------
(* LoopDetector (src/nanobot/agent/safety.py).  A tool call is a function  *)
(* name and an arguments dict, the dict a sequence of <<key, value>> in    *)
(* insertion order.  An md5 digest is modelled by the text it was taken    *)
(* of: digests are equal exactly when the texts are.                       *)

Range(seq) == { seq[i] : i \in 1..Len(seq) }
Count(seq, x) == Cardinality({ i \in 1..Len(seq) : seq[i] = x })

(* list.sort() / sort_keys: the arrangement of `seq` in ascending Rank *)
SortedBy(seq, Rank(_)) ==
    CHOOSE t \in [1..Len(seq) -> Range(seq)] :
        /\ \A x \in Range(seq) : Count(t, x) = Count(seq, x)
        /\ \A i, j \in 1..Len(seq) : i < j => Rank(t[i]) <= Rank(t[j])

Position(order, x) == CHOOSE i \in 1..Len(order) : order[i] = x

(* the keys of the model in string order *)
KeyOrder == <<"a", "b", "path">>
KeyRank(pair) == Position(KeyOrder, pair[1])

ToolCall(name, arguments) == [name |-> name, arguments |-> arguments]

CallFuncAB == ToolCall("func", << <<"a", 1>>, <<"b", 2>> >>)
CallFuncBA == ToolCall("func", << <<"b", 2>>, <<"a", 1>> >>)
CallRead == ToolCall("read_file", << <<"path", 1>> >>)

(* f"{name}:{json.dumps(args, sort_keys=True)}" *)
Normalized(tc) == ToolCall(tc.name, SortedBy(tc.arguments, KeyRank))

(* the entries in string order: func:{"a": 1, "b": 2}, func:{"b": 2,      *)
(* "a": 1} (the text of an unsorted dump), read_file:{"path": 1}          *)
NormalizedOrder == << CallFuncAB, CallFuncBA, CallRead >>
NormalizedRank(n) == Position(NormalizedOrder, n)

(* a history entry: a digest, or one of the placeholders *)
Digest(text) == [kind |-> "md5", of |-> text]
ActionMark == [kind |-> "action", of |-> ""]
NoToolsMark == [kind |-> "no_tools", of |-> << >>]

(* HashContent of the content as given, blanks included *)
HashContentUnstripped(content) == Digest(content)

(* _hash_content *)
HashContent(content) == Digest(Strip(content))

(* HashToolCalls without normalized.sort() *)
HashToolCallsInOrder(tool_calls) ==
    Digest([i \in 1..Len(tool_calls) |-> Normalized(tool_calls[i])])

(* _hash_tool_calls *)
HashToolCalls(tool_calls) ==
    Digest(SortedBy([i \in 1..Len(tool_calls) |-> Normalized(tool_calls[i])],
                    NormalizedRank))

(* _count_repeats: the length of the run of the last item at the end *)
CountRepeats(history) ==
    IF history = << >> THEN 0
    ELSE LET last_item == history[Len(history)]
         IN IF last_item.kind \in {"action", "no_tools"} THEN 0
            ELSE Cardinality({ k \in 1..Len(history) :
                    \A i \in (Len(history) - k + 1)..Len(history) :
                        history[i] = last_item })

(* history.append(h) followed by pop(0) when longer than history_size *)
Appended(history, h, history_size) ==
    IF Len(history) + 1 > history_size THEN Tail(Append(history, h))
    ELSE Append(history, h)

(* the interactions handed to add_interaction *)
Interactions ==
    { <<c, << >> >> : c \in {NoneStr, "Hello", " Hello ", "Bye"} }
    \cup { <<NoneStr, t>> : t \in { <<CallFuncAB>>, <<CallFuncBA>>,
                                     <<CallFuncAB, CallRead>>,
                                     <<CallRead, CallFuncBA>>,
                                     <<CallFuncAB, CallFuncAB>> } }
    \cup { <<"Hello", <<CallFuncAB>> >> }

(* LoopDetector(max_repeats, history_size) *)
DetectorConfigs == { <<2, 2>>, <<2, 3>>, <<3, 3>> }

InitDetector ==
    /\ InitService /\ calc = CalcIdle /\ cb = CbIdle /\ builder = BuilderIdle
    /\ NoTasks /\ Wired /\ NoCodec
    /\ detector \in { [pc |-> "ready", max_repeats |-> c[1], history_size |-> c[2],
                        tool_history |-> << >>, content_history |-> << >>,
                        log |-> << >>, raised |-> "none"] :
                          c \in DetectorConfigs }

(* add_interaction(content, tool_calls) *)
AddInteraction(content, tool_calls) ==
    /\ detector.pc = "ready"
    /\ Len(detector.log) < MaxInteractions
    /\ LET text == TruthyStr(content) /\ tool_calls = << >>
           ch1 == IF text
                  THEN Appended(detector.content_history, HashContent(content),
                                detector.history_size)
                  ELSE Append(detector.content_history, ActionMark)
           text_loop == text /\ CountRepeats(ch1) >= detector.max_repeats
           th1 == IF text_loop THEN detector.tool_history
                  ELSE IF tool_calls # << >>
                  THEN Appended(detector.tool_history, HashToolCalls(tool_calls),
                                detector.history_size)
                  ELSE Append(detector.tool_history, NoToolsMark)
           tool_loop == /\ ~text_loop /\ tool_calls # << >>
                        /\ CountRepeats(th1) >= detector.max_repeats
       IN detector' = [detector EXCEPT
                          !.content_history = ch1,
                          !.tool_history = th1,
                          !.log = Append(@, [content |-> content,
                                             tool_calls |-> tool_calls]),
                          !.raised = IF text_loop THEN "text"
                                     ELSE IF tool_loop THEN "tools" ELSE "none"]
    /\ UNCHANGED <<service_vars, calc, cb, builder, tasks, timer_task, on_job, peer, codec>>

NextDetector == \E x \in Interactions : AddInteraction(x[1], x[2])

SpecDetector == InitDetector /\ [][NextDetector]_vars

----------------------------------------------------------------------------
(* ContextBuilder.build_messages (src/nanobot/agent/context.py): the       *)
(* system message of a call, given the three layers the call computed.     *)

(* self.last_l2_hash = None *)
NoDigest == [kind |-> "none", of |-> ""]

(* a part of the system message; `cache_control` is the cache marker *)
Part(text, marked) == [type |-> "text", text |-> text, cache_control |-> marked]

(* the texts the layers evaluate to *)
Layers1 == {"static"}
Layers2 == {"", "memory A", "memory B"}
Layers3 == {"time 1", "time 2"}

L2UnchangedAlways(last_l2_hash, current_l2_hash) == TRUE

(* l2_unchanged *)
L2Unchanged(last_l2_hash, current_l2_hash) == last_l2_hash = current_l2_hash

(* the content of the system message *)
SystemContent(layer_1, layer_2, layer_3, enable_caching, last_l2_hash) ==
    IF enable_caching
    THEN IF L2Unchanged(last_l2_hash, Digest(layer_2))
         THEN << Part(layer_1, FALSE), Part(layer_2, TRUE), Part(layer_3, FALSE) >>
         ELSE << Part(layer_1, TRUE), Part(layer_2, FALSE), Part(layer_3, FALSE) >>
    ELSE << Part(layer_1 \o "\n\n" \o layer_2 \o "\n\n" \o layer_3, FALSE) >>

InitBuilder ==
    /\ InitService /\ calc = CalcIdle /\ cb = CbIdle /\ detector = DetectorIdle
    /\ NoTasks /\ Wired /\ NoCodec
    /\ builder = [pc |-> "ready", last_l2_hash |-> NoDigest, builds |-> 0,
                  enable_caching |-> FALSE, layer_2 |-> "", system |-> << >>,
                  cached_before |-> FALSE, layer_2_before |-> ""]

(* build_messages with the layers the call computed *)
BuildMessages(layer_1, layer_2, layer_3, enable_caching) ==
    /\ builder.pc = "ready"
    /\ builder.builds < MaxBuilds
    /\ builder' =
          [builder EXCEPT
              !.builds = @ + 1,
              !.last_l2_hash = IF enable_caching THEN Digest(layer_2) ELSE @,
              !.enable_caching = enable_caching,
              !.layer_2 = layer_2,
              !.system = SystemContent(layer_1, layer_2, layer_3, enable_caching,
                                       builder.last_l2_hash),
              !.cached_before =
                  IF builder.builds > 0 /\ builder.enable_caching THEN TRUE ELSE @,
              !.layer_2_before =
                  IF builder.builds > 0 /\ builder.enable_caching
                  THEN builder.layer_2 ELSE @]
    /\ UNCHANGED <<service_vars, calc, cb, detector, tasks, timer_task, on_job, peer, codec>>

NextBuilder ==
    \E l1 \in Layers1, l2 \in Layers2, l3 \in Layers3, caching \in BOOLEAN :
        BuildMessages(l1, l2, l3, caching)

SpecBuilder == InitBuilder /\ [][NextBuilder]_vars

----------------------------------------------------------------------------
(* The scan over jobs of every kind of next_run_at: none, the instant 0,   *)
(* a past and a future instant, enabled and disabled.                      *)

ScanChoices ==
    { <<AtSchedule(0), FALSE>>, <<AtSchedule(1), FALSE>>, <<AtSchedule(3), FALSE>>,
      <<EverySchedule(1), FALSE>>, <<EverySchedule(0), FALSE>> }

NextScan ==
    \/ LoopFirstCycle(TRUE)
    \/ LoopWake(TRUE)
    \/ LoopTimeout(TRUE)
    \/ LoopErrSleepDone(TRUE)
    \/ Yielded /\ ExecSteps
    \/ Yielded /\ \E c \in ScanChoices : AddJob(c[1], c[2])
    \/ Yielded /\ \E id \in JobIds, enabled \in BOOLEAN : EnableJob(id, enabled)
    \/ Start
    \/ Tick

SpecScan == Init /\ [][NextScan]_vars

----------------------------------------------------------------------------
(* start() and stop() called any number of times.  start() does not look   *)
(* at self._timer_task before it creates a task, so several loop tasks can *)
(* exist; each is a record of `tasks` with its own last_mtime and timeout. *)
(* No call sets the wake event here: a waiting task resumes at its timeout.*)

NewTask == [pc |-> "ready", last_mtime |-> 0, wake_at |-> 0]

(* start(): load, recompute, save, create a loop task and keep it in       *)
(* self._timer_task                                                        *)
StartCall ==
    /\ Len(tasks) < MaxStarts
    /\ running' = TRUE
    /\ LET jobs1 == RecomputeNextRuns(LoadStore, now)
       IN /\ store' = jobs1
          /\ file' = SaveStore(jobs1)
    /\ loaded' = TRUE
    /\ tasks' = Append(tasks, NewTask)
    /\ timer_task' = Len(tasks) + 1
    /\ execs' = Live
    /\ UNCHANGED <<now, running_jobs, wakeup, loop_pc, last_mtime, wake_at, calls,
                   next_id, ops, ext_ids, loop_errors, mut, calc, cb, detector,
                   builder, on_job, peer, codec>>

(* stop(): clear the flag, cancel the task self._timer_task refers to *)
StopCall ==
    /\ running' = FALSE
    /\ tasks' = IF timer_task = 0 THEN tasks
                ELSE [tasks EXCEPT ![timer_task].pc =
                         IF @ = "finished" THEN @
                         ELSE ExceptHandler("CancelledError")]
    /\ timer_task' = 0
    /\ execs' = Live
    /\ UNCHANGED <<now, file, store, loaded, running_jobs, wakeup, loop_pc, last_mtime,
                   wake_at, calls, next_id, ops, ext_ids, loop_errors, mut, calc, cb,
                   detector, builder, on_job, peer, codec>>

(* the loop task `t` runs: at its first step, or when its wait or its      *)
(* error sleep has timed out.  It tests `while self._running` and returns  *)
(* when the flag is clear; otherwise it makes one pass and suspends again. *)
TaskResume(t, fail) ==
    LET task    == tasks[t]
        reload  == fail # "stat" /\ FileChanged(file, task.last_mtime)
        raised  == \/ fail # "none"
                   \/ reload /\ LoadOutcome(file).raised
                   \/ loaded' /\ (ScanRaises(store', now) \/ SleepRaises(store', now))
        due     == IF fail \in {"stat", "scan"} \/ ~loaded' \/ ScanRaises(store', now)
                   THEN <<>>
                   ELSE DueJobs(store', now, running_jobs)
    IN /\ \/ task.pc = "ready"
          \/ task.pc \in {"waiting", "errsleep"} /\ now >= task.wake_at
       /\ IF ~running
          THEN /\ fail = "none"
               /\ tasks' = [tasks EXCEPT ![t].pc = "finished"]
               /\ execs' = Live
               /\ UNCHANGED <<store, loaded, ops, loop_errors>>
          ELSE /\ IF fail = "none" THEN ops' = ops ELSE ops < MaxOps /\ ops' = ops + 1
               /\ store' = IF reload THEN RecomputeNextRuns(ReadFile(file), now)
                           ELSE store
               /\ loaded' = IF reload THEN ~LoadOutcome(file).raised ELSE loaded
               /\ execs' = (IF reload /\ loaded THEN Detach(Live, store, Ids(store))
                            ELSE Live)
                           \o [i \in 1..Len(due) |->
                                  NewExec(due[i].id, "scan", "created", None)]
               /\ Len(execs') <= MaxExecs
               /\ loop_errors' = (loop_errors \/ raised)
               /\ tasks' = [tasks EXCEPT ![t] =
                     [pc |-> IF raised THEN ExceptHandler("Exception") ELSE "waiting",
                      last_mtime |-> IF reload /\ ~LoadOutcome(file).raised
                                     THEN file.mtime ELSE task.last_mtime,
                      wake_at |-> now + (IF raised THEN SleepCeiling
                                         ELSE SleepTime(store', now))]]
       /\ UNCHANGED <<now, file, running, running_jobs, wakeup, loop_pc, last_mtime,
                      wake_at, calls, next_id, ext_ids, mut, calc, cb, detector,
                      builder, timer_task, on_job, peer, codec>>

NextLifecycle ==
    \/ StartCall
    \/ StopCall
    \/ \E t \in 1..Len(tasks), fail \in Fails : TaskResume(t, fail)
    \/ ExecSteps
    \/ \E c \in AddChoices : ExternalAdd(c[1], c[2])
    \/ Tick

SpecLifecycle == Init /\ [][NextLifecycle]_vars

----------------------------------------------------------------------------
(* The service built without a callback: CronService(store_path), as the   *)
(* gateway and `nanobot cron run` build it.  The gateway assigns on_job     *)
(* afterwards; `cron run` never does.  With on_job None _execute_job has no *)
(* await: it runs from its first line to its save in one step.             *)

(* the record of an execution that ran to its end without a callback *)
UnwiredExec(id, via, job) ==
    [NewExec(id, via, "done", now) EXCEPT !.job = job, !.outcome = "ok"]

(* cron.on_job = partial(execute_cron_job, ...) *)
WireCallback ==
    /\ ~on_job
    /\ on_job' = TRUE
    /\ execs' = Live
    /\ UNCHANGED <<now, file, store, loaded, running, running_jobs, wakeup, loop_pc,
                   last_mtime, wake_at, calls, next_id, ops, ext_ids, loop_errors, mut,
                   calc, cb, detector, builder, tasks, timer_task, peer, codec>>

(* a task the scan created runs _execute_job with on_job None *)
ExecUnwired(e) ==
    /\ ~on_job
    /\ e \in Created
    /\ \A d \in Created : e <= d
    /\ LET x      == Live[e]
           job    == Rearm(RecordOutcome(ObjOf(x), "ok", now), now)
           jobs1  == StoreAfterRun(store, x, job)
           gone   == Ids(store) \ Ids(jobs1)
           execs1 == Detach(Live,
                            IF x.attached THEN ReplaceJob(store, job) ELSE store,
                            gone)
       IN /\ store' = jobs1
          /\ execs' = [execs1 EXCEPT ![e] = [UnwiredExec(x.id, x.via, job)
                                               EXCEPT !.attached = x.attached]]
          /\ running_jobs' = running_jobs \ {x.id}
          /\ file' = SaveStore(jobs1)
    /\ UNCHANGED <<ext_vars, calc, mut, now, loaded, running, wakeup, loop_pc, last_mtime,
                   wake_at, calls, next_id, ops, ext_ids, loop_errors>>

(* run_job on a service with on_job None: `nanobot cron run <id>` *)
RunJobUnwired(id, force) ==
    LET jobs0 == LoadStore
        runs  == RunJobRuns(jobs0, id, force)
        job   == Rearm(RecordOutcome(JobOf(jobs0, id), "ok", now), now)
        x     == NewExec(id, "run_job", "running", now)
        jobs1 == IF runs THEN StoreAfterRun(jobs0, x, job) ELSE jobs0
    IN /\ ~on_job
       /\ Len(Live) < MaxExecs
       /\ ops < MaxOps /\ ops' = ops + 1
       /\ store' = jobs1
       /\ loaded' = TRUE
       /\ execs' = IF runs
                   THEN Append(Detach(Live, ReplaceJob(jobs0, job),
                                      Ids(jobs0) \ Ids(jobs1)),
                               UnwiredExec(id, "run_job", job))
                   ELSE Live
       /\ running_jobs' = IF runs THEN running_jobs \ {id} ELSE running_jobs
       /\ file' = IF runs THEN SaveStore(jobs1) ELSE file
       /\ UNCHANGED <<ext_vars, calc, mut, now, running, wakeup, loop_pc, last_mtime,
                      wake_at, calls, next_id, ext_ids, loop_errors>>

InitUnwired ==
    /\ InitService /\ calc = CalcIdle
    /\ cb = CbIdle /\ detector = DetectorIdle /\ builder = BuilderIdle /\ NoTasks
    /\ on_job = FALSE /\ peer = PeerIdle /\ NoCodec

NextUnwired ==
    \/ LoopFirstCycle(TRUE)
    \/ LoopWake(TRUE)
    \/ LoopTimeout(TRUE)
    \/ LoopErrSleepDone(TRUE)
    \/ on_job /\ ExecSteps
    \/ \E e \in 1..Len(Live) : ExecUnwired(e)
    \/ \E id \in JobIds, force \in BOOLEAN : RunJobUnwired(id, force)
    \/ \E c \in AddChoices : AddJob(c[1], c[2])
    \/ WireCallback
    \/ Start
    \/ Tick

SpecUnwired == InitUnwired /\ [][NextUnwired]_vars

----------------------------------------------------------------------------
(* _save_store and _load_store on jobs with every field of CronJob.  A     *)
(* document is what json.dumps writes: a dict per job under the camelCase  *)
(* keys; loading reads each key back, with dict.get defaults for the ones  *)
(* that may be missing.                                                    *)

(* CronStore.version as a new store holds it *)
StoreVersion == 1

(* d.get(key, default) *)
Get(d, key, default) == IF key \in DOMAIN d THEN d[key] ELSE default

(* the dict of one job, written under the attribute names *)
SaveRecordSnake(j) ==
    [id |-> j.id, name |-> j.name, enabled |-> j.enabled,
     schedule |-> [kind |-> j.schedule.kind, at_ms |-> j.schedule.at_ms,
                   every_ms |-> j.schedule.every_ms, expr |-> j.schedule.expr,
                   tz |-> j.schedule.tz],
     payload |-> [kind |-> j.payload.kind, message |-> j.payload.message,
                  deliver |-> j.payload.deliver, channel |-> j.payload.channel,
                  to |-> j.payload.to],
     state |-> [next_run_at_ms |-> j.state.next_run_at_ms,
                last_run_at_ms |-> j.state.last_run_at_ms,
                last_status |-> j.state.last_status,
                last_error |-> j.state.last_error],
     created_at_ms |-> j.created_at_ms, updated_at_ms |-> j.updated_at_ms,
     delete_after_run |-> j.delete_after_run]

(* the dict _save_store writes for one job *)
SaveRecord(j) ==
    [id |-> j.id, name |-> j.name, enabled |-> j.enabled,
     schedule |-> [kind |-> j.schedule.kind, atMs |-> j.schedule.at_ms,
                   everyMs |-> j.schedule.every_ms, expr |-> j.schedule.expr,
                   tz |-> j.schedule.tz],
     payload |-> [kind |-> j.payload.kind, message |-> j.payload.message,
                  deliver |-> j.payload.deliver, channel |-> j.payload.channel,
                  to |-> j.payload.to],
     state |-> [nextRunAtMs |-> j.state.next_run_at_ms,
                lastRunAtMs |-> j.state.last_run_at_ms,
                lastStatus |-> j.state.last_status,
                lastError |-> j.state.last_error],
     createdAtMs |-> j.created_at_ms, updatedAtMs |-> j.updated_at_ms,
     deleteAfterRun |-> j.delete_after_run]

(* building the CronJob of a dict raises KeyError without these keys *)
LoadRecordRaises(d) ==
    \/ ~({"id", "name", "schedule", "payload"} \subseteq DOMAIN d)
    \/ "kind" \notin DOMAIN d.schedule

(* the CronJob _load_store builds from one dict *)
LoadRecord(d) ==
    LET st == Get(d, "state", << >>)
    IN [id |-> d.id, name |-> d.name, enabled |-> Get(d, "enabled", TRUE),
        schedule |-> [kind |-> d.schedule.kind,
                      at_ms |-> Get(d.schedule, "atMs", None),
                      every_ms |-> Get(d.schedule, "everyMs", None),
                      expr |-> Get(d.schedule, "expr", ""),
                      tz |-> Get(d.schedule, "tz", "")],
        payload |-> [kind |-> Get(d.payload, "kind", "agent_turn"),
                     message |-> Get(d.payload, "message", ""),
                     deliver |-> Get(d.payload, "deliver", FALSE),
                     channel |-> Get(d.payload, "channel", NoneStr),
                     to |-> Get(d.payload, "to", NoneStr)],
        state |-> [next_run_at_ms |-> Get(st, "nextRunAtMs", None),
                   last_run_at_ms |-> Get(st, "lastRunAtMs", None),
                   last_status |-> Get(st, "lastStatus", NoneStr),
                   last_error |-> Get(st, "lastError", NoneStr)],
        created_at_ms |-> Get(d, "createdAtMs", 0),
        updated_at_ms |-> Get(d, "updatedAtMs", 0),
        delete_after_run |-> Get(d, "deleteAfterRun", FALSE)]

(* the document _save_store writes *)
Document(jobs) ==
    [version |-> StoreVersion, jobs |-> [i \in 1..Len(jobs) |-> SaveRecord(jobs[i])]]

(* the collection _load_store builds from a document: empty when building  *)
(* a job raised (the except clause)                                        *)
LoadDocument(doc) ==
    LET dicts == Get(doc, "jobs", << >>)
    IN IF \E i \in 1..Len(dicts) : LoadRecordRaises(dicts[i]) THEN << >>
       ELSE [i \in 1..Len(dicts) |-> LoadRecord(dicts[i])]

(* jobs with every field, the values `get` defaults to and others *)
CodecJobs ==
    [id : {1, 2}, name : {"", "water"}, enabled : BOOLEAN,
     schedule : {AtSchedule(2), CronSchedule("even", "east")},
     payload : {[kind |-> "echo", message |-> "", deliver |-> FALSE,
                 channel |-> NoneStr, to |-> NoneStr],
                [kind |-> "agent_turn", message |-> "task", deliver |-> TRUE,
                 channel |-> "telegram", to |-> "user1"]},
     state : {[next_run_at_ms |-> 2, last_run_at_ms |-> None,
               last_status |-> NoneStr, last_error |-> NoneStr],
              [next_run_at_ms |-> None, last_run_at_ms |-> 1,
               last_status |-> "error", last_error |-> "boom"]},
     created_at_ms : {0, 1}, updated_at_ms : {1}, delete_after_run : BOOLEAN]

CodecPairs ==
    { j \in CodecJobs : j.name = "water" /\ j.enabled /\ j.created_at_ms = 1
                         /\ j.delete_after_run }

CodecCollections ==
    {<< >>} \cup { <<j>> : j \in CodecJobs }
            \cup { <<j, k>> : j \in CodecPairs, k \in CodecPairs }

NoDocument == [version |-> 0, jobs |-> << >>]

InitCodec ==
    /\ InitService /\ calc = CalcIdle
    /\ cb = CbIdle /\ detector = DetectorIdle /\ builder = BuilderIdle /\ NoTasks
    /\ Wired
    /\ codec \in { [pc |-> "built", jobs |-> jobs, doc |-> NoDocument,
                     loaded |-> << >>, doc2 |-> NoDocument] :
                    jobs \in CodecCollections }

(* _save_store of the collection *)
CodecSave ==
    /\ codec.pc = "built"
    /\ codec' = [codec EXCEPT !.pc = "saved", !.doc = Document(codec.jobs)]
    /\ UNCHANGED <<service_vars, calc, cb, detector, builder, tasks, timer_task,
                   on_job, peer>>

(* _load_store of a fresh instance *)
CodecLoad ==
    /\ codec.pc = "saved"
    /\ codec' = [codec EXCEPT !.pc = "loaded", !.loaded = LoadDocument(codec.doc)]
    /\ UNCHANGED <<service_vars, calc, cb, detector, builder, tasks, timer_task,
                   on_job, peer>>

(* _save_store of the fresh instance *)
CodecResave ==
    /\ codec.pc = "loaded"
    /\ codec' = [codec EXCEPT !.pc = "resaved", !.doc2 = Document(codec.loaded)]
    /\ UNCHANGED <<service_vars, calc, cb, detector, builder, tasks, timer_task,
                   on_job, peer>>

NextCodec == CodecSave \/ CodecLoad \/ CodecResave

SpecCodec == InitCodec /\ [][NextCodec]_vars

----------------------------------------------------------------------------
(* Two CronService instances on one store file, as in reproduce_race.py:   *)
(* the second one (`peer`) loads the file and has _check_and_run_due_jobs  *)
(* called on it; the first is the service of the other specifications.     *)
(* Each instance has its own _store and its own _running_jobs; the file is *)
(* all they share.  No mutation call is made, so the wake event stays      *)
(* clear and the first instance's loop resumes at its timeouts.            *)

(* the in-flight set of both instances taken together *)
InFlightShared(p) == p.running_jobs \cup running_jobs

(* self._running_jobs of the instance `p` *)
InFlightOf(p) == p.running_jobs

PeerFresh ==
    [pc |-> "fresh", store |-> << >>, running_jobs |-> {}, execs |-> << >>,
     calls |-> [id \in JobIds |-> 0]]

PeerCreated == { e \in 1..Len(peer.execs) : peer.execs[e].phase = "created" }
PeerRunning == { e \in 1..Len(peer.execs) : peer.execs[e].phase = "running" }

(* s2._load_store() *)
PeerLoad ==
    /\ peer.pc = "fresh"
    /\ peer' = [peer EXCEPT !.pc = "loaded", !.store = ReadFile(file)]
    /\ execs' = Live
    /\ UNCHANGED <<now, file, store, loaded, running, running_jobs, wakeup, loop_pc,
                   last_mtime, wake_at, calls, next_id, ops, ext_ids, loop_errors, mut,
                   calc, cb, detector, builder, tasks, timer_task, on_job, codec>>

(* s2._check_and_run_due_jobs(): a task per due job *)
PeerScan ==
    /\ peer.pc = "loaded"
    /\ PeerCreated = {}
    /\ LET due == DueJobs(peer.store, now, InFlightOf(peer))
       IN /\ due # << >>
          /\ Len(peer.execs) + Len(due) <= MaxExecs
          /\ peer' = [peer EXCEPT !.execs = @ \o
                          [i \in 1..Len(due) |->
                              [id |-> due[i].id, phase |-> "created", start_ms |-> None]]]
    /\ execs' = Live
    /\ UNCHANGED <<now, file, store, loaded, running, running_jobs, wakeup, loop_pc,
                   last_mtime, wake_at, calls, next_id, ops, ext_ids, loop_errors, mut,
                   calc, cb, detector, builder, tasks, timer_task, on_job, codec>>

(* _execute_job of the peer up to the suspension in the callback *)
PeerExecStart(e) ==
    /\ e \in PeerCreated
    /\ \A d \in PeerCreated : e <= d
    /\ peer' = [peer EXCEPT !.running_jobs = @ \cup {peer.execs[e].id},
                            !.execs[e].phase = "running",
                            !.execs[e].start_ms = now,
                            !.calls[peer.execs[e].id] = Min(2, @ + 1)]
    /\ execs' = Live
    /\ UNCHANGED <<now, file, store, loaded, running, running_jobs, wakeup, loop_pc,
                   last_mtime, wake_at, calls, next_id, ops, ext_ids, loop_errors, mut,
                   calc, cb, detector, builder, tasks, timer_task, on_job, codec>>

(* _execute_job of the peer from the return (or raise) of the callback to  *)
(* its end: the peer saves its own collection into the shared file         *)
PeerExecComplete(e, outcome) ==
    /\ e \in PeerRunning
    /\ LET x     == peer.execs[e]
           job   == Rearm(RecordOutcome(JobOf(peer.store, x.id), outcome, x.start_ms),
                          now)
           jobs1 == IF job.schedule.kind = "at" /\ job.delete_after_run
                    THEN WithoutId(peer.store, job.id)
                    ELSE ReplaceJob(peer.store, job)
       IN /\ peer' = [peer EXCEPT !.store = jobs1,
                                  !.running_jobs = @ \ {x.id},
                                  !.execs = SelectSeq(@, LAMBDA y : y # x)]
          /\ file' = SaveStore(jobs1)
    /\ execs' = Live
    /\ UNCHANGED <<now, store, loaded, running, running_jobs, wakeup, loop_pc,
                   last_mtime, wake_at, calls, next_id, ops, ext_ids, loop_errors, mut,
                   calc, cb, detector, builder, tasks, timer_task, on_job, codec>>

InitPeers ==
    /\ InitService /\ calc = CalcIdle
    /\ cb = CbIdle /\ detector = DetectorIdle /\ builder = BuilderIdle /\ NoTasks
    /\ NoCodec /\ on_job = TRUE
    /\ peer = PeerFresh

NextPeers ==
    \/ LoopFirstCycle(TRUE)
    \/ LoopTimeout(TRUE)
    \/ LoopErrSleepDone(TRUE)
    \/ ExecSteps
    \/ Start
    \/ PeerLoad
    \/ PeerScan
    \/ \E e \in 1..Len(peer.execs) : PeerExecStart(e)
    \/ \E e \in 1..Len(peer.execs), outcome \in Outcomes : PeerExecComplete(e, outcome)
    \/ \E c \in AddChoices : ExternalAdd(c[1], c[2])
    \/ Tick

SpecPeers == InitPeers /\ [][NextPeers]_vars

----------------------------------------------------------------------------
(* The running service with recurring jobs, under the scheduling the event *)
(* loop gives: time passes, the loop task runs whenever its wait has ended *)
(* and every ready execution task runs; callbacks return or raise.  The    *)
(* callers add `every` jobs.                                               *)

EveryChoices == { <<EverySchedule(1), FALSE>>, <<EverySchedule(2), FALSE>> }

LoopSteps ==
    \/ LoopFirstCycle(TRUE)
    \/ LoopWake(TRUE)
    \/ LoopTimeout(TRUE)
    \/ LoopErrSleepDone(TRUE)

NextFair ==
    \/ LoopSteps
    \/ ExecSteps
    \/ \E c \in EveryChoices : AddJob(c[1], c[2])
    \/ Start
    \/ Tick

SpecFair ==
    /\ Init /\ [][NextFair]_vars
    /\ WF_vars(Tick) /\ WF_vars(Start) /\ WF_vars(LoopSteps) /\ WF_vars(ExecSteps)

----------------------------------------------------------------------------
(* Cancellation.  An execution suspended in `await self.on_job(job)` whose *)
(* task is cancelled, or whose callback lets a CancelledError through,     *)
(* gets the CancelledError at the await.  It is not an Exception, so the   *)
(* except clause does not apply, and _execute_job has no finally: the      *)
(* coroutine ends there, and nothing after the try statement runs.         *)

ExecCancel(e) ==
    /\ e \in Running
    /\ execs' = [i \in 1..(Len(Live) - 1) |-> IF i < e THEN Live[i] ELSE Live[i + 1]]
    /\ UNCHANGED <<ext_vars, calc, mut, now, file, store, loaded, running, running_jobs,
                   wakeup, loop_pc, last_mtime, wake_at, calls, next_id, ops, ext_ids,
                   loop_errors>>

NextCancel ==
    \/ LoopSteps
    \/ ExecSteps
    \/ \E e \in 1..Len(Live) : ExecCancel(e)
    \/ \E c \in EveryChoices : AddJob(c[1], c[2])
    \/ Start
    \/ Tick

SpecCancel ==
    /\ Init /\ [][NextCancel]_vars
    /\ WF_vars(Tick) /\ WF_vars(Start) /\ WF_vars(LoopSteps) /\ WF_vars(ExecSteps)

----------------------------------------------------------------------------
(* Properties *)

FileIds == { file.jobs[i].id : i \in 1..Len(file.jobs) }
FileJob(id) == file.jobs[CHOOSE i \in 1..Len(file.jobs) : file.jobs[i].id = id]
AllIds == 1..MaxJobs

(* C1: within one instance at most one execution of a job id is in flight  *)
(* (its callback invoked and not yet finished) at any time.                *)
C1_AtMostOneInFlight ==
    \A id \in AllIds : Cardinality(InFlight(id)) <= 1

(* C2: a one-shot job that became due is handed to the callback once by    *)
(* the loop of one instance, never a second time (a job enabled again      *)
(* through the API counts anew).                                           *)
C2_OneShotInvokedOnce ==
    \A id \in AllIds :
        (\/ HasId(store, id) /\ JobOf(store, id).schedule.kind = "at"
         \/ \E e \in 1..Len(execs) :
                execs[e].id = id /\ ~execs[e].attached
                /\ execs[e].job.schedule.kind = "at")
        => calls[id] <= 1

(* C3: a job an external writer put into the file, not yet loaded into the *)
(* collection, is not lost to a save of the service: after every step it   *)
(* is still in the file or has been loaded.                                *)
C3_ExternalJobNotLost ==
    [][\A id \in ext_ids :
          (id \in FileIds /\ ~HasId(store, id))
          => (id \in FileIds' \/ HasId(store', id))]_vars

(* C4: when the callback raises, the job of the execution gets            *)
(* last_status = error and last_error = the message, when it returns it    *)
(* gets ok and no error (and the collection shows it when that job object  *)
(* is in the collection); the completion leaves the loop, the flag, the    *)
(* other jobs and their in-flight marks as they were.                      *)
C4_CallbackOutcomeRecorded ==
    [][\A e \in 1..Len(execs') :
          execs'[e].phase = "done" =>
            LET x == execs'[e]
            IN /\ x.job.state.last_status = x.outcome
               /\ x.job.state.last_error =
                      (IF x.outcome = "error" THEN "msg" ELSE "none")
               /\ (x.attached /\ HasId(store', x.id)) => JobOf(store', x.id) = x.job
               /\ loop_pc' = loop_pc /\ running' = running
               /\ \A id \in AllIds \ {x.id} :
                    /\ HasId(store', id) <=> HasId(store, id)
                    /\ HasId(store, id) => JobOf(store', id) = JobOf(store, id)
                    /\ id \in running_jobs' <=> id \in running_jobs]_vars

C4_Witness ==
    \E e \in Done :
        /\ execs[e].outcome = "error" /\ execs[e].attached
        /\ Len(store) = 2 /\ loop_pc = "waiting"

(* C5: after the execution of an `at` job has completed, the collection    *)
(* does not hold its id when delete_after_run is set, and otherwise holds  *)
(* it (if at all) disabled and with no next_run_at.                        *)
C5_OneShotRetired ==
    \A e \in Done :
        LET x == execs[e]
        IN x.job.schedule.kind = "at" =>
             IF x.job.delete_after_run THEN ~HasId(store, x.id)
             ELSE HasId(store, x.id) =>
                    /\ ~JobOf(store, x.id).enabled
                    /\ JobOf(store, x.id).state.next_run_at_ms = None

(* C6: after every execution completes the store is saved, and the saved   *)
(* file records the execution's last_status, last_error and last_run_at    *)
(* for the job, if the file still holds the job.                           *)
C6_ExecutionPersisted ==
    \A e \in Done :
        LET x == execs[e]
        IN /\ file = SaveStore(store)
           /\ x.id \in FileIds =>
                /\ FileJob(x.id).state.lastStatus = x.outcome
                /\ FileJob(x.id).state.lastError =
                       (IF x.outcome = "error" THEN "msg" ELSE "none")
                /\ FileJob(x.id).state.lastRunAtMs = x.start_ms

(* C7: when an execution of an `every` or `cron` job completes, the job's  *)
(* next_run_at is the schedule's next run computed at the completion time  *)
(* (for a positive interval: completion time + interval, later than        *)
(* last_run_at); the completion removes no job from the collection and     *)
(* leaves the job's enabled flag as it was.                                *)
C7_RecurringRearmed ==
    [][\A e \in 1..Len(execs') :
          (execs'[e].phase = "done"
           /\ execs'[e].job.schedule.kind \in {"every", "cron"}) =>
            LET x == execs'[e]
                j == x.job
            IN /\ j.state.next_run_at_ms = ComputeNextRun(j.schedule, now)
               /\ (j.schedule.kind = "every" /\ j.schedule.every_ms > 0) =>
                     /\ j.state.next_run_at_ms = now + j.schedule.every_ms
                     /\ j.state.next_run_at_ms > j.state.last_run_at_ms
               /\ j.state.last_run_at_ms = x.start_ms
               /\ Ids(store') = Ids(store)
               /\ x.attached => (HasId(store', x.id) /\ JobOf(store', x.id) = j)
               /\ HasId(store, x.id) =>
                     JobOf(store', x.id).enabled = JobOf(store, x.id).enabled]_vars

C7_Witness ==
    \E e \in Done :
        /\ execs[e].job.schedule.kind = "every"
        /\ execs[e].attached
        /\ execs[e].start_ms < now
        /\ JobOf(store, execs[e].id).state.next_run_at_ms = now + 2

LoopAlive == loop_pc \in {"ready", "waiting", "errsleep", "spin"}

(* C8: once started, the loop is ended only by stop(): while the running   *)
(* flag is set the loop task is alive, whatever was raised in a pass or in *)
(* an execution, and the loop ends only in a step that clears the flag.    *)
C8_LoopEndsOnlyByStop ==
    /\ [](running => LoopAlive)
    /\ [][(LoopAlive /\ ~LoopAlive') => (running /\ ~running')]_vars

(* a pass has completed after a pass raised *)
C8_Witness ==
    loop_errors /\ loop_pc = "waiting" /\ running

(* C9: after stop() the loop creates no further execution; stop() leaves   *)
(* the executions already dispatched as they are; each of them that        *)
(* completes afterwards has updated its job and saved the store; and after *)
(* stop() every dispatched execution does complete.                        *)
C9_StopSparesExecutions ==
    /\ [][~running => Cardinality(Created') <= Cardinality(Created)]_vars
    /\ [][(running /\ ~running') =>
            (execs' = Live /\ running_jobs' = running_jobs /\ store' = store)]_vars
    /\ [](\A e \in Done :
            (~running /\ execs[e].via = "scan") =>
               /\ execs[e].job.state.last_status = execs[e].outcome
               /\ execs[e].job.state.last_run_at_ms = execs[e].start_ms
               /\ execs[e].id \notin running_jobs
               /\ file = SaveStore(store))
    /\ [](~running => <>(Created = {} /\ Running = {}))

(* an execution the loop dispatched before stop() has completed after it *)
C9_Witness ==
    /\ ~running /\ loop_pc = "stopped"
    /\ \E e \in Done : execs[e].via = "scan" /\ execs[e].attached

(* the mutations that must raise the wake signal *)
Mutation ==
    \/ \E c \in AddChoices : AddJob(c[1], c[2])
    \/ \E id \in AllIds : HasId(LoadStore, id) /\ RemoveJob(id)
    \/ \E id \in AllIds, enabled \in BOOLEAN :
          HasId(LoadStore, id) /\ EnableJob(id, enabled)

(* C10: add, enable/disable of an existing job and removal of an existing  *)
(* job set the wake signal; a set signal stays set until the loop takes it *)
(* from its wait (or from a wait_for that did not suspend); and a set      *)
(* signal ends the loop's wait whatever the timeout.                       *)
C10_WakeSignal ==
    /\ [][Mutation => wakeup']_vars
    /\ [][(wakeup /\ ~wakeup') =>
            \/ loop_pc = "waiting" /\ loop_pc' \in {"waiting", "errsleep", "spin"}
            \/ loop_pc' = "spin"]_vars
    /\ []((wakeup /\ running /\ loop_pc = "waiting" /\ now < wake_at /\ Live = << >>)
          => ENABLED LoopWake(TRUE))

(* the loop waits with the signal set by a mutation, before its timeout *)
C10_Witness ==
    /\ wakeup /\ running /\ loop_pc = "waiting" /\ now < wake_at
    /\ Live = << >> /\ Len(store) > 0

(* a pass of the heartbeat loop that did not raise *)
CleanPass ==
    /\ \/ \E s \in BOOLEAN : LoopFirstCycle(s) \/ LoopWake(s) \/ LoopTimeout(s)
                              \/ LoopErrSleepDone(s)
       \/ LoopSpin
    /\ loop_pc' # "errsleep"

(* C11: a pass dispatches every job that is due in it, each as a task of   *)
(* its own; a created task can start its callback whatever other callback  *)
(* is suspended; and a suspended callback does not keep the loop from its  *)
(* next pass when its wait times out.                                      *)
C11_DueJobsRunConcurrently ==
    /\ [][CleanPass =>
            \A i \in 1..Len(store') :
               IsDue(store'[i], now, running_jobs) =>
                  \E e \in 1..Len(execs') :
                     /\ execs'[e].id = store'[i].id
                     /\ execs'[e].phase = "created" /\ execs'[e].via = "scan"]_vars
    /\ []((Yielded /\ Created # {}) => ENABLED (\E e \in 1..Len(Live) : ExecStart(e)))
    /\ []((running /\ loop_pc = "waiting" /\ now >= wake_at /\ Running # {}
           /\ Created = {} /\ Len(Live) <= Cardinality(running_jobs))
          => ENABLED LoopTimeout(TRUE))

(* two jobs dispatched by one scan are both in their callbacks, started at *)
(* the same instant, and the loop is back in its wait                      *)
C11_Witness ==
    /\ Len(Live) = 2 /\ Running = {1, 2} /\ loop_pc = "waiting"
    /\ Live[1].via = "scan" /\ Live[2].via = "scan"
    /\ Live[1].id # Live[2].id /\ Live[1].start_ms = Live[2].start_ms

(* the two calls run one after the other from the state at their issue *)
Serial(a, b) == ApplyMut(b, ApplyMut(a, mut.base))

(* C12: when two mutation calls issued together have both returned, the    *)
(* collection, the file's jobs and the wake event are those of the two     *)
(* calls run one after the other in one of the two orders.                 *)
C12_MutationsSerialized ==
    (mut.phase = "issued" /\ mut.pc = <<"done", "done">>) =>
        \/ Visible = Serial(mut.ops[1], mut.ops[2])
        \/ Visible = Serial(mut.ops[2], mut.ops[1])

(* a removal and an add issued together have both returned, the removal    *)
(* having found its job                                                    *)
C12_Witness ==
    /\ mut.phase = "issued" /\ mut.pc = <<"done", "done">>
    /\ mut.ops[1].kind = "remove" /\ HasId(mut.base.jobs, mut.ops[1].id)
    /\ mut.ops[2].kind = "add" /\ mut.ops[2].defs # << >>

(* a step of add_jobs_batch with the batch `defs` *)
BatchStep(defs) == \E ids \in DrawIds(Len(defs)) : AddJobsBatch(defs, ids)

(* C13: add_jobs_batch with n definitions appends exactly n jobs, in input *)
(* order, and the ids in the collection are always pairwise distinct.      *)
C13_BatchAddsDistinctIds ==
    /\ [][\A defs \in Batches :
            BatchStep(defs) =>
               /\ Len(store') = Len(LoadStore) + Len(defs)
               /\ \A i \in 1..Len(LoadStore) : store'[i] = LoadStore[i]
               /\ \A i \in 1..Len(defs) :
                     LET j == store'[Len(LoadStore) + i]
                     IN j.schedule = defs[i][1] /\ j.delete_after_run = defs[i][2]]_vars
    /\ [](Cardinality(Ids(LoadStore)) = Len(LoadStore))

(* C14: add_jobs_batch with a non-empty batch writes the file once, after  *)
(* all jobs of the batch were appended: everything it writes holds every   *)
(* job of the batch; with an empty batch it writes nothing, leaves the     *)
(* wake event as it was and leaves the collection unchanged.               *)
C14_BatchSavedOnce ==
    [][\A defs \in Batches :
          AddJobsBatch(defs, FreshIds(Len(defs))) =>
             LET ids == FreshIds(Len(defs))
                 writes == BatchWrites(defs, ids, LoadStore)
             IN IF defs = << >>
                THEN /\ writes = << >>
                     /\ file' = file /\ wakeup' = wakeup
                     /\ store' = store /\ loaded' = loaded
                ELSE /\ Len(writes) = 1
                     /\ \A k \in 1..Len(writes) :
                           \A i \in 1..Len(ids) :
                              \E m \in 1..Len(writes[k].jobs) :
                                 writes[k].jobs[m].id = ids[i]
                     /\ file' = writes[Len(writes)]
                     /\ file'.jobs = Doc(store')
                     /\ wakeup']_vars

(* the file as saved by a batch of two: both jobs, written at one instant  *)
C14_Witness ==
    /\ loaded /\ Len(store) = 2 /\ file = SaveStore(store) /\ wakeup
    /\ \A i \in 1..2 : store[i].state.last_status = "none"
                       /\ <<store[i].schedule, store[i].delete_after_run>> \in BatchChoices

(* C15: remove_job with an id that is not in the collection returns false  *)
(* and leaves the collection, the file and the wake event unchanged; with  *)
(* an id that is in the collection it returns true, and then neither the   *)
(* collection nor the saved file holds a job with that id.                 *)
C15_RemoveJobEffect ==
    [][\A id \in AllIds :
          RemoveJob(id) =>
             IF HasId(LoadStore, id)
             THEN /\ Removed(LoadStore, id)
                  /\ ~HasId(store', id) /\ id \notin FileIds'
                  /\ file' = SaveStore(store')
             ELSE /\ ~Removed(LoadStore, id)
                  /\ store' = LoadStore /\ file' = file /\ wakeup' = wakeup]_vars

(* job 1 of two was removed, without ever having been executed *)
C15_Witness ==
    /\ next_id = 2 /\ ops = 1 /\ ext_ids = {} /\ calls[1] = 0
    /\ Len(store) = 1 /\ store[1].id = 2
    /\ file = SaveStore(store) /\ wakeup /\ running_jobs = {}

(* C16: enable_job on an existing job sets the flag and sets next_run_at   *)
(* to the next run from now (enabling) or to None (disabling), saves the   *)
(* store and changes nothing else of that job and no other job; with an    *)
(* unknown id it changes nothing.                                          *)
C16_EnableJobEffect ==
    [][\A id \in AllIds, en \in BOOLEAN :
          EnableJob(id, en) =>
             IF HasId(LoadStore, id)
             THEN LET j0 == JobOf(LoadStore, id)
                      j1 == JobOf(store', id)
                  IN /\ j1.enabled = en
                     /\ j1.state.next_run_at_ms =
                            (IF en THEN ComputeNextRun(j0.schedule, now) ELSE None)
                     /\ j1 = [j0 EXCEPT !.enabled = j1.enabled,
                                        !.state.next_run_at_ms = j1.state.next_run_at_ms]
                     /\ Len(store') = Len(LoadStore)
                     /\ \A i \in 1..Len(LoadStore) :
                           LoadStore[i].id # id => store'[i] = LoadStore[i]
                     /\ file' = SaveStore(store')
             ELSE store' = LoadStore /\ file' = file /\ wakeup' = wakeup]_vars

(* a job that never ran has been disabled *)
C16_Witness ==
    /\ ops = 1 /\ wakeup /\ file = SaveStore(store)
    /\ \E i \in 1..Len(store) :
          /\ ~store[i].enabled /\ store[i].state.next_run_at_ms = None
          /\ store[i].state.last_status = "none"

(* C17: run_job without force on a disabled job, or with an unknown id,    *)
(* returns false, starts no execution and changes neither the collection   *)
(* nor the file; on an enabled job, or with force on any existing job, it  *)
(* starts the execution in the same step, whatever the job's next_run_at.  *)
C17_RunJobEffect ==
    [][\A id \in AllIds, force \in BOOLEAN :
          RunJob(id, force) =>
             /\ store' = LoadStore /\ file' = file
             /\ IF HasId(LoadStore, id) /\ (force \/ JobOf(LoadStore, id).enabled)
                THEN /\ RunJobRuns(LoadStore, id, force)
                     /\ execs' = Append(Live, NewExec(id, "run_job", "running", now))
                     /\ id \in running_jobs'
                ELSE /\ ~RunJobRuns(LoadStore, id, force)
                     /\ execs' = Live /\ running_jobs' = running_jobs
                     /\ calls' = calls]_vars

(* a forced run of a disabled job is in its callback *)
C17_Witness ==
    \E e \in Running :
        /\ Live[e].via = "run_job" /\ Live[e].attached
        /\ HasId(store, Live[e].id) /\ ~JobOf(store, Live[e].id).enabled

C19_EveryNextRun ==
    (calc.pc = "returned" /\ calc.schedule.kind = "every") =>
        IF calc.schedule.every_ms # None /\ calc.schedule.every_ms > 0
        THEN calc.result = calc.now_ms + calc.schedule.every_ms
        ELSE calc.result = None

C19_Witness ==
    /\ calc.pc = "returned" /\ calc.schedule.kind = "every"
    /\ calc.schedule.every_ms > 0 /\ calc.now_ms > 0
    /\ calc.result = calc.now_ms + calc.schedule.every_ms

(* C20: for a cron schedule the call never raises; with a timezone key     *)
(* ZoneInfo does not know the result is that of the same expression with   *)
(* no timezone; with a valid expression the result is not None.            *)
C20_CronUnknownTimezone ==
    (calc.pc = "returned" /\ calc.schedule.kind = "cron") =>
        /\ calc.result # Raised
        /\ (calc.schedule.tz # "" /\ ~TzKnown(calc.schedule.tz)) =>
              calc.result =
                  ComputeNextRun(CronSchedule(calc.schedule.expr, ""), calc.now_ms)
        /\ calc.schedule.expr = "even" => calc.result # None

C20_Witness ==
    /\ calc.pc = "returned" /\ calc.schedule.kind = "cron"
    /\ calc.schedule.tz = "mars" /\ calc.schedule.expr = "even"
    /\ calc.result = CronNext("even", calc.now_ms)

(* a schedule that yields no next occurrence at any instant *)
Dormant(schedule) ==
    /\ schedule.kind \in {"every", "cron"}
    /\ \A t \in CalcTimes : ComputeNextRun(schedule, t) = None

DormantJobs(jobs) == SelectSeq(jobs, LAMBDA j : j.enabled /\ Dormant(j.schedule))
AwakeJobs(jobs) == SelectSeq(jobs, LAMBDA j : ~(j.enabled /\ Dormant(j.schedule)))

(* a pass of the heartbeat loop *)
Pass ==
    \/ \E s \in BOOLEAN : LoopFirstCycle(s) \/ LoopWake(s) \/ LoopTimeout(s)
                           \/ LoopErrSleepDone(s)
    \/ LoopSpin

(* C21: an enabled job whose schedule has no next occurrence has no        *)
(* next_run_at; no step of the loop or of an execution removes it or       *)
(* clears its flag; no scan dispatches it; a pass raises only when the     *)
(* environment made it raise; and the loop's wait is the one it would be   *)
(* without the dormant jobs.                                               *)
C21_DormantJob ==
    /\ [](\A i \in 1..Len(store) :
             (store[i].enabled /\ Dormant(store[i].schedule))
             => store[i].state.next_run_at_ms = None)
    /\ [][\A i \in 1..Len(store) :
             (loaded /\ store[i].enabled /\ Dormant(store[i].schedule))
             => /\ HasId(store', store[i].id)
                /\ JobOf(store', store[i].id).enabled
                /\ JobOf(store', store[i].id).schedule = store[i].schedule]_vars
    /\ [](\A e \in 1..Len(execs) :
             execs[e].via = "scan" =>
                ~Dormant((IF execs[e].phase = "done" THEN execs[e].job
                          ELSE ObjOf(execs[e])).schedule))
    /\ [][(Pass /\ loop_pc' = "errsleep") => ops' = ops + 1]_vars
    /\ [][(Pass /\ loop_pc' # "errsleep") =>
             wake_at' = now + SleepTime(AwakeJobs(store'), now)]_vars

(* the loop waits for the ceiling although the collection holds an enabled *)
(* job, dormant since it was added at an earlier instant                   *)
C21_Witness ==
    /\ loop_pc = "waiting" /\ running /\ ~loop_errors
    /\ Len(DormantJobs(store)) > 0 /\ file.mtime < now
    /\ wake_at = now + SleepCeiling

(* the file exists and its content cannot be parsed *)
Corrupt(f) == f.mtime # 0 /\ ParseJobs(f.jobs).raised

(* C22: loading never raises; with no file, and with a file that cannot be *)
(* parsed (malformed JSON, a record without a required key), the loaded    *)
(* collection is empty: start() creates the loop on it, a reloading pass   *)
(* goes on to its wait with it, and an add made afterwards is saved.       *)
C22_LoadNeverRaises ==
    /\ [](~LoadOutcome(file).raised)
    /\ []((file.mtime = 0 \/ Corrupt(file)) => ReadFile(file) = <<>>)
    /\ [][(Start /\ ~loaded /\ (file.mtime = 0 \/ Corrupt(file)))
           => (store' = <<>> /\ loaded' /\ running' /\ loop_pc' = "ready")]_vars
    /\ [][(Pass /\ Corrupt(file) /\ file.mtime > last_mtime /\ ops' = ops)
           => (/\ store' = <<>> /\ loaded' /\ last_mtime' = file.mtime
               /\ loop_pc' = "waiting" /\ wake_at' = now + SleepCeiling)]_vars
    /\ [][\A c \in AddChoices :
             AddJob(c[1], c[2]) =>
                (file' = SaveStore(store') /\ ~Corrupt(file') /\ Len(store') > 0)]_vars

(* the file was corrupted while the service held a job; the loop has       *)
(* reloaded it as empty, and a job added afterwards has been dispatched    *)
C22_Witness ==
    /\ ops = 1 /\ ~loop_errors /\ next_id = 2 /\ last_mtime > 1 /\ calls[1] = 0
    /\ Len(store) = 1 /\ store[1].id = 2
    /\ \E e \in 1..Len(Live) : Live[e].via = "scan" /\ Live[e].id = 2

(* the agent's response is None, empty or only whitespace *)
Blank(response) == response = NoneStr \/ Strip(response) = ""

(* C23: for a delegated job with deliver = true, a None, empty or blank    *)
(* response of the agent makes the callback raise, so last_status is error *)
(* and not ok, and exactly one message, the fallback, is published to the  *)
(* job's target.                                                           *)
C23_EmptyResponseIsError ==
    (/\ cb.pc = "returned" /\ cb.payload.kind = "agent_turn"
     /\ cb.payload.deliver /\ Blank(cb.response))
    => /\ cb.raised /\ cb.last_status = "error"
       /\ cb.published = << OutboundMessage(cb.payload, FallbackText) >>

(* the last n interactions added *)
Latest(n) == SubSeq(detector.log, Len(detector.log) - n + 1, Len(detector.log))

(* a tool call as name and arguments, the arguments as a dict *)
Canon(tc) == [name |-> tc.name, arguments |-> Range(tc.arguments)]

(* the calls of a turn, each with the number of times the turn makes it *)
CallBag(turn) ==
    [x \in { Canon(turn[i]) : i \in 1..Len(turn) } |->
        Cardinality({ i \in 1..Len(turn) : Canon(turn[i]) = x })]

(* the calls of a turn as a set *)
CallSet(turn) == { Canon(turn[i]) : i \in 1..Len(turn) }

PureText(x) == TruthyStr(x.content) /\ x.tool_calls = << >>

(* C25: add_interaction raises for repeated text exactly when the latest   *)
(* max_repeats interactions are all pure text with the same stripped       *)
(* content: not on an earlier repetition, and not when an interaction with *)
(* tool calls or without content lies among them.                          *)
C25_TextLoop ==
    (detector.pc = "ready" /\ detector.log # << >>) =>
        (detector.raised = "text" <=>
            /\ Len(detector.log) >= detector.max_repeats
            /\ \A i \in 1..detector.max_repeats :
                  /\ PureText(Latest(detector.max_repeats)[i])
                  /\ Strip(Latest(detector.max_repeats)[i].content) =
                         Strip(Latest(1)[1].content))

(* after a text, a turn with tool calls and a second text, the third text  *)
(* in a row raised, the texts differing in their surrounding blanks        *)
C25_Witness ==
    /\ detector.pc = "ready" /\ detector.max_repeats = 3
    /\ detector.raised = "text" /\ Len(detector.log) = MaxInteractions
    /\ PureText(detector.log[1]) /\ detector.log[2].tool_calls # << >>
    /\ Strip(detector.log[1].content) = Strip(Latest(1)[1].content)
    /\ Latest(1)[1].content # Latest(2)[1].content

(* the parts of the last system message that carry the cache marker *)
Marked == { i \in 1..Len(builder.system) : builder.system[i].cache_control }

(* C26: after a build_messages call with caching enabled the system        *)
(* message has three parts and the cache marker is on exactly one: on      *)
(* layer 2 when there was an earlier caching call on the builder and the   *)
(* latest of them had the same layer 2 text, else on layer 1, never on     *)
(* layer 3; and last_l2_hash is the digest of the layer 2 just used.       *)
C26_CacheMarker ==
    (builder.pc = "ready" /\ builder.builds > 0 /\ builder.enable_caching) =>
        /\ Len(builder.system) = 3
        /\ builder.system[2].text = builder.layer_2
        /\ Marked = IF builder.cached_before
                        /\ builder.layer_2_before = builder.layer_2
                     THEN {2} ELSE {1}
        /\ builder.last_l2_hash = Digest(builder.layer_2)

(* the fourth call, with caching, found layer 2 as the caching call       *)
(* before it had left it, and put the marker on layer 2                    *)
C26_Witness ==
    /\ builder.pc = "ready" /\ builder.builds = MaxBuilds
    /\ builder.enable_caching /\ builder.cached_before /\ Marked = {2}
    /\ builder.layer_2 = "memory B" /\ builder.layer_2_before = "memory B"

(* the ids of the executions a pass has just created *)
Dispatched == { Live[e].id : e \in Created }

(* C27: a pass that does not raise dispatches exactly the jobs that are    *)
(* enabled, have a next_run_at (the instant 0 included) that is not later  *)
(* than now, and are not in flight.                                        *)
C27_ScanDispatchesDue ==
    [][CleanPass =>
         Dispatched' =
            { store'[i].id : i \in
                { k \in 1..Len(store') :
                    /\ store'[k].enabled
                    /\ store'[k].state.next_run_at_ms # None
                    /\ now >= store'[k].state.next_run_at_ms
                    /\ store'[k].id \notin running_jobs } }]_vars

(* C28: a pass reloads the collection from the file exactly when the file   *)
(* exists and its modification time is later than the one the loop last    *)
(* observed (and stat() did not raise); a reload makes the observed time   *)
(* the file's time and the collection the file's jobs with their next runs *)
(* recomputed; a pass that finds the file no later than observed leaves    *)
(* the collection and the observed time alone.                             *)
C28_HotReload ==
    /\ [][Pass =>
            /\ last_mtime' # last_mtime =>
                  /\ file.mtime > 0 /\ file.mtime > last_mtime
                  /\ last_mtime' = file.mtime
                  /\ loaded'
                  /\ store' = RecomputeNextRuns(ReadFile(file), now)
            /\ (loop_pc' # "errsleep" /\ file.mtime > 0 /\ file.mtime > last_mtime)
                  => last_mtime' = file.mtime
            /\ ~(file.mtime > 0 /\ file.mtime > last_mtime)
                  => (store' = store /\ loaded' = loaded /\ last_mtime' = last_mtime)]_vars
    /\ [](last_mtime <= file.mtime)

(* the loop has observed the file of an external writer and holds its job, *)
(* later than a pass that had loaded the file before and dispatched a job  *)
(* that is still running                                                   *)
C28_Witness ==
    /\ loop_pc = "waiting" /\ ~loop_errors
    /\ ext_ids # {} /\ ext_ids \subseteq Ids(store)
    /\ last_mtime = file.mtime
    /\ \E e \in Running : Live[e].via = "scan" /\ Live[e].start_ms < last_mtime

(* the next_run_at values of the enabled jobs that have one *)
NextRuns(jobs) ==
    { jobs[i].state.next_run_at_ms : i \in
        { k \in 1..Len(jobs) :
            jobs[k].enabled /\ jobs[k].state.next_run_at_ms # None } }

Earliest(times) == CHOOSE t \in times : \A u \in times : t <= u

(* C29: the time a pass that does not raise waits is between the floor and *)
(* the ceiling: the ceiling when no enabled job has a next_run_at, else    *)
(* the earliest next_run_at of the enabled jobs minus now, clamped to the  *)
(* floor and the ceiling.                                                  *)
C29_SleepClamped ==
    [][CleanPass =>
         /\ wake_at' - now >= SleepFloor /\ wake_at' - now <= SleepCeiling
         /\ wake_at' - now =
               IF NextRuns(store') = {} THEN SleepCeiling
               ELSE Min(SleepCeiling,
                        Max(SleepFloor, Earliest(NextRuns(store')) - now))]_vars

(* the loop tasks that have neither returned nor been cancelled *)
AliveTasks == { t \in 1..Len(tasks) : tasks[t].pc \in {"ready", "waiting", "errsleep"} }

(* C30: whatever start() and stop() calls were made, at most one loop task *)
(* is alive, and a stop() leaves no loop task alive.                       *)
C30_SingleLoopTask ==
    /\ [](Cardinality(AliveTasks) <= 1)
    /\ [][StopCall => AliveTasks' = {}]_vars

(* C31: an execution ends with last_status ok (and with that retires or    *)
(* deletes a one-shot job) only when a callback is wired and the execution *)
(* was suspended in it.                                                    *)
C31_ConsumedOnlyByCallback ==
    [][\A e \in 1..Len(execs') :
          (execs'[e].phase = "done" /\ execs'[e].outcome = "ok")
             => (on_job /\ e <= Len(Live) /\ Live[e].phase = "running")]_vars

(* C32: the collection a fresh instance loads from a saved file is the     *)
(* saved collection, job by job and field by field, in the same order; and *)
(* the document the fresh instance then saves is the document it loaded.   *)
C32_SaveLoadRoundTrip ==
    /\ codec.pc \in {"loaded", "resaved"} => codec.loaded = codec.jobs
    /\ codec.pc = "resaved" => codec.doc2 = codec.doc

(* two different jobs, with values that are no `get` default, saved, loaded *)
(* and saved again                                                         *)
C32_Witness ==
    /\ codec.pc = "resaved" /\ Len(codec.jobs) = 2
    /\ codec.jobs[1] # codec.jobs[2]
    /\ codec.jobs[1].payload.deliver /\ codec.jobs[1].delete_after_run
    /\ codec.jobs[2].state.last_status = "error"
    /\ codec.doc.jobs[1].deleteAfterRun

(* C33: a scan of the second instance dispatches every job that is due in  *)
(* its collection and not in its own in-flight set, whatever the in-flight *)
(* set of the first instance holds.                                        *)
C33_GuardIsPerInstance ==
    /\ [][(peer.pc = "loaded" /\ peer'.pc = "loaded"
             /\ Len(peer'.execs) > Len(peer.execs))
          => \A i \in 1..Len(peer.store) :
                IsDue(peer.store[i], now, peer.running_jobs)
                   => \E e \in 1..Len(peer'.execs) :
                         /\ peer'.execs[e].id = peer.store[i].id
                         /\ peer'.execs[e].phase = "created"]_vars
    /\ []((/\ peer.pc = "loaded" /\ peer.execs = << >>
           /\ \E i \in 1..Len(peer.store) :
                 IsDue(peer.store[i], now, peer.running_jobs))
          => ENABLED PeerScan)

(* one job, in flight in both instances at once: its callback was invoked  *)
(* once by each                                                            *)
C33_Witness ==
    /\ peer.pc = "loaded" /\ Len(peer.store) = 1 /\ Len(store) = 1
    /\ 1 \in running_jobs /\ 1 \in peer.running_jobs
    /\ calls[1] = 1 /\ peer.calls[1] = 1

(* an enabled `every` job with a positive interval whose next run lies     *)
(* within the time the model covers, in the running service whose loop has *)
(* seen every change made to the file so far                               *)
Awaiting(id) ==
    /\ running /\ loaded /\ HasId(store, id)
    /\ ~wakeup /\ ~FileChanged(file, last_mtime)
    /\ LET j == JobOf(store, id)
       IN /\ j.enabled /\ j.schedule.kind = "every" /\ j.schedule.every_ms > 0
          /\ j.state.next_run_at_ms # None /\ j.state.next_run_at_ms <= MaxTime

(* the job is being executed, or a loop pass has raised *)
Served(id) == id \in running_jobs \/ loop_errors

NextRunOf(jobs, id) == JobOf(jobs, id).state.next_run_at_ms

(* the step ends the execution of the job `id` *)
OwnCompletion(id) == id \in running_jobs /\ id \notin running_jobs'

(* C35: in a service whose loop has loaded the file before, a step leaves  *)
(* next_run_at_ms of a job unchanged while other jobs are in the           *)
(* collection, unless the step ends that job's own execution: the          *)
(* addition of another job, the end of another job's execution with its    *)
(* save, and the loop pass that follows them do not change it.             *)
C35_OthersKeepNextRun ==
    [][\A id \in JobIds :
          ( /\ loaded /\ loaded' /\ last_mtime > 0
            /\ HasId(store, id) /\ HasId(store', id) /\ Len(store) >= 2
            /\ ~OwnCompletion(id) )
          => NextRunOf(store', id) = NextRunOf(store, id)]_vars

(* every disabled job of a collection has no next run *)
DisabledHaveNoNextRun(jobs) ==
    \A i \in 1..Len(jobs) : ~jobs[i].enabled => jobs[i].state.next_run_at_ms = None

(* C36: in every state, every disabled job of the collection in memory has *)
(* next_run_at_ms = None.                                                  *)
C36_DisabledJobsHaveNoNextRun ==
    loaded => DisabledHaveNoNextRun(store)

(* C37: an id in the in-flight set leaves it: the execution that put it    *)
(* there ends and removes it, whether its callback returns, raises or is   *)
(* cancelled.                                                              *)
C37_InFlightIdLeaves ==
    \A id \in JobIds : (id \in running_jobs) ~> (id \notin running_jobs)

(* the executions of job `id` dispatched by a scan and not yet completed *)
ScanExecs(id) ==
    { e \in 1..Len(Live) : Live[e].id = id /\ Live[e].via = "scan" }

(* C38: a job dispatched by a scan is not dispatched again by a later scan *)
(* before that execution has completed: at any time at most one execution  *)
(* created by the loop for a job id is pending or in flight.               *)
C38_NoSecondDispatch ==
    \A id \in JobIds : Cardinality(ScanExecs(id)) <= 1

(* the id was handed out, and neither the collection in memory nor the     *)
(* file holds it                                                           *)
Gone(id) == id <= next_id /\ ~HasId(LoadStore, id) /\ id \notin FileIds

(* the executions of job `id` that are created or suspended in the callback *)
Executing(id) == { e \in 1..Len(Live) : Live[e].id = id }

(* the tasks created for job `id` that have not started *)
CreatedFor(id) == { e \in Created : Live[e].id = id }

(* C39: remove_job of a job whose execution is in flight takes it out of   *)
(* the collection and of the file, and a job that is out of both stays out *)
(* of both and gets no new execution, whatever step follows: the end of    *)
(* its execution with its save, a hot reload, a scan.                      *)
C39_RemovedStaysRemoved ==
    [][\A id \in JobIds :
          /\ (RemoveJob(id) /\ HasId(LoadStore, id) /\ Executing(id) # {})
                => Gone(id)'
          /\ Gone(id)
                => /\ Gone(id)'
                   /\ Cardinality(CreatedFor(id))' <= Cardinality(CreatedFor(id))]_vars

(* the execution of a recurring job has just ended after remove_job took   *)
(* the job out while it was in flight, and the loop has run a pass since   *)
(* the removal woke it                                                     *)
C39_Witness ==
    /\ ops = 1 /\ loop_pc = "waiting" /\ ~wakeup /\ loaded
    /\ \E e \in Done :
          /\ ~execs[e].attached /\ execs[e].job.schedule.kind = "every"
          /\ execs[e].via = "scan"
          /\ Gone(execs[e].id)
          /\ file = SaveStore(store)

(* C40: the tool history and the content history of a LoopDetector each    *)
(* hold at most history_size entries.                                      *)
C40_HistoriesBounded ==
    detector.pc = "ready" =>
        /\ Len(detector.tool_history) <= detector.history_size
        /\ Len(detector.content_history) <= detector.history_size

====
